---- MODULE Spec2Model ----
(***************************************************************************)
(* Model of the clwd instance lifecycle orchestrator (cli/main.py), the    *)
(* project store (utils/config.py), the Hetzner provider client            *)
(* (providers/hetzner.py) and the remote shell client (utils/ssh.py).      *)
(***************************************************************************)
EXTENDS Integers, Sequences, FiniteSets, TLC

(***************************************************************************)
(* Bounds of the model                                                     *)
(***************************************************************************)
\* number of chunks a serialised JSON document is written in
NChunks == 2
\* number of inodes of the configuration directory's file system
MaxInode == 6
\* largest attempt number at which the simulated connector first succeeds
MaxN == 3
\* cap of the elapsed-time counter of the setup-completion polling loop
MaxElapsed == 330
\* number of servers the provider hands out ids for
MaxServers == 2
\* number of CLI invocations run one after the other
MaxRuns == 2
\* largest value of the wall clock (datetime.now / time.time)
MaxWall == 2
\* number of calls of the store API made one after the other
MaxCalls == 3
MaxKeep == 2

(***************************************************************************)
(* Program constants                                                       *)
(***************************************************************************)
\* main.py:746  wait_for_ssh(instance.ip, timeout=300)
SshTimeout == 300
\* hetzner.py:465  sock.settimeout(5)
ConnectTimeout == 5
\* hetzner.py:471  settle delay after the first successful connect
SshSettle == 5
\* hetzner.py:477  retry interval of the reachability polling
SshInterval == 2
\* main.py:758  wait_for_setup_complete(timeout=300)
SetupTimeout == 300
\* ssh.py:240  timeout of one marker probe
ProbeTimeout == 10
\* ssh.py:253, 258  retry interval of the setup-completion polling
SetupInterval == 5

Names == {"demo"}
Providers == {"hetzner", "aws"}
\* hetzner.py:36-40
SIZE_MAP == {"small", "medium", "large"}
Sizes == {"small", "huge"}
HardeningLevels == {"none", "full"}
\* hetzner.py:43-49
REGIONS == {"nbg1", "fsn1", "hel1", "ash", "hil"}
\* "" stands for an absent --region option
RegionArgs == {"", "mars"}
ServerStatuses == {"initializing", "running"}
\* a connector that never succeeds
Never == 0

PROJECTS == "projects.json"
BACKUP == "projects.json.backup"
\* the temporary file is the store file itself: the document is written in place
TmpInPlace == PROJECTS
TMP == "projects.json.tmp"
\* the file export_projects writes and a file produced elsewhere
EXPORT == "export.json"
EXTERNAL == "external.json"
Paths == {PROJECTS, BACKUP, TMP, EXPORT, EXTERNAL}
Inodes == 1..MaxInode

\* the two processes of the store-level specifications
Procs == {1, 2}

VARIABLES
    \* ---- persisted store: the configuration directory
    fs,             \* [dir: path -> inode or 0, inode: inode -> content]
    \* ---- cloud provider and remote instances
    servers,        \* ids of the servers that exist at the provider
    nextId,         \* next server id the provider assigns
    remote,         \* files copied to remote instances: set of [id, path, content]
    wall,           \* wall clock
    \* ---- one CLI invocation (init or destroy)
    pc,             \* position in the running command
    args,           \* its arguments
    cloud_provider, \* the resolved HetznerProvider (its region), "" before
    credentials_json,
    session_json,
    instance,       \* the Instance created or looked up
    elapsed,        \* loop.time() - start_time of the polling loop in progress
    attempts,       \* connection attempts made by wait_for_ssh, counted up
                    \* to MaxN + 1: the connector distinguishes no more
    sshUpAt,        \* the connector first succeeds on this attempt (Never: never)
    lastProbe,      \* outcome of the last probe of a polling loop, of the
                    \* provider calls of create_instance, or of a copy
    sessions,       \* ssh_manager._sessions: session key -> session object
    exit_code,      \* process exit status, -1 while running
    message,        \* the error reported to the user
    \* ---- history of the invocation
    steps,          \* provisioning steps started, in order
    succeeded,      \* provisioning steps that succeeded
    failed,         \* the provisioning step that failed, "" if none
    apiCalls,       \* calls made to the provider API
    createCalls,    \* instance-creation requests sent to the provider
    user_data,      \* bootstrap payload of the last instance-creation request
    destroyOk,      \* the provider's destroy call returned successfully
    attempted,      \* remote paths a credential transfer was attempted to
    runs,           \* invocations started
    \* ---- store-level processes (concurrent invocations, crash)
    sp,             \* per process: position, loaded document, open file, result
    \* ---- store API
    call,           \* the last call of the store API and what it returned
    backups,        \* the *.backup files of the config directory, with mtime
    handed,           \* per (ip, user): the session get_session returned last
    \* ---- asyncio main task of the invocation
    must_cancel     \* main_task.cancel() was called: a SIGINT under asyncio.run

vars == <<fs, servers, nextId, remote, wall, pc, args, cloud_provider,
          credentials_json, session_json, instance, elapsed, attempts,
          sshUpAt, lastProbe, sessions, exit_code, message, steps, succeeded,
          failed, apiCalls, createCalls, user_data, destroyOk, attempted,
          runs, sp, call, backups, handed,
          must_cancel>>

cloudVars == <<servers, nextId, remote, wall>>
cliVars == <<pc, args, cloud_provider, credentials_json, session_json,
             instance, elapsed, attempts, sshUpAt, lastProbe, sessions,
             exit_code, message, steps, succeeded, failed, apiCalls,
             createCalls, user_data, destroyOk, attempted, runs,
             must_cancel>>

(***************************************************************************)
(* File system of the configuration directory                              *)
(***************************************************************************)
EmptyDoc == [n \in {} |-> 0]

\* json.dump(data, f, indent=2, sort_keys=True): the document as chunks
Serialize(d) == [i \in 1..NChunks |-> [doc |-> d, idx |-> i]]

\* json.loads succeeds on exactly the complete serialisation of one document
IsComplete(c) ==
    /\ Len(c) = NChunks
    /\ \A i \in 1..NChunks : c[i].idx = i /\ c[i].doc = c[1].doc

Parse(c) == c[1].doc

Range(f) == {f[x] : x \in DOMAIN f}

FreeInodes(f, held) == {i \in Inodes : i \notin Range(f.dir) /\ i \notin held}

Alloc(f, held) == CHOOSE i \in FreeInodes(f, held) :
                     \A j \in FreeInodes(f, held) : i <= j

\* an inode no directory entry and no open file refers to is gone
Collect(f, held) ==
    [f EXCEPT !.inode = [i \in Inodes |->
        IF i \in FreeInodes(f, held) THEN <<>> ELSE f.inode[i]]]

\* open(path, 'w'): truncate the file at path, creating it when absent
FsOpenW(f, path, held) ==
    IF f.dir[path] # 0
    THEN [f EXCEPT !.inode[f.dir[path]] = <<>>]
    ELSE LET i == Alloc(f, held) IN
         [dir |-> [f.dir EXCEPT ![path] = i],
          inode |-> [f.inode EXCEPT ![i] = <<>>]]

Hole == [doc |-> EmptyDoc, idx |-> 0]

\* write one chunk at an offset of an open file
FsWriteAt(f, ino, off, chunk) ==
    LET c == f.inode[ino]
        n == IF off > Len(c) THEN off ELSE Len(c)
    IN [f EXCEPT !.inode[ino] =
          [k \in 1..n |-> IF k = off THEN chunk
                          ELSE IF k <= Len(c) THEN c[k] ELSE Hole]]

\* Path.replace(src, dst): atomic rename
FsReplace(f, src, dst, held) ==
    IF src = dst THEN f
    ELSE Collect([f EXCEPT !.dir = [f.dir EXCEPT ![dst] = f.dir[src],
                                                 ![src] = 0]], held)

FsExists(f, path) == f.dir[path] # 0
FsContent(f, path) == f.inode[f.dir[path]]

\* shutil.copy2(src, dst), whole
FsCopy(f, src, dst, held) ==
    LET g == FsOpenW(f, dst, held) IN
    [g EXCEPT !.inode[g.dir[dst]] = FsContent(f, src)]

(***************************************************************************)
(* Project store (utils/config.py), each operation as one whole call       *)
(***************************************************************************)
\* the name is used as it was given
StripNothing(n) == n

\* str.strip() on the project names of the model
Strip(n) == CASE n = "demo" -> "demo"
              [] n = " demo " -> "demo"
              [] n = " other " -> "other"
              [] n = "  " -> ""
              [] OTHER -> n

\* a piece of a file that is not valid UTF-8
InvalidUtf8 == [doc |-> EmptyDoc, idx |-> -1]

\* _load_json_file: an absent file is the empty document; read_text raises
\* UnicodeDecodeError for a file that is not valid UTF-8, which the except
\* clause (OSError, JSONDecodeError) does not catch; json.loads raises
\* JSONDecodeError for an unparsable one, raised again as ConfigError
LoadJsonFile(f, path) ==
    IF ~FsExists(f, path) THEN [ok |-> TRUE, doc |-> EmptyDoc, error |-> ""]
    ELSE IF \E i \in 1..Len(FsContent(f, path)) :
              FsContent(f, path)[i] = InvalidUtf8
         THEN [ok |-> FALSE, doc |-> EmptyDoc, error |-> "UnicodeDecodeError"]
    ELSE IF IsComplete(FsContent(f, path))
         THEN [ok |-> TRUE, doc |-> Parse(FsContent(f, path)), error |-> ""]
         ELSE [ok |-> FALSE, doc |-> EmptyDoc, error |-> "ConfigError"]

\* _save_json_file without the backup copy
SaveJsonFileNoBackup(f, data) ==
    LET f2 == FsOpenW(f, TMP, {})
        f3 == [f2 EXCEPT !.inode[f2.dir[TMP]] = Serialize(data)]
    IN FsReplace(f3, TMP, PROJECTS, {})

\* _save_json_file run to completion by the only writer
SaveJsonFile(f, data) ==
    LET f1 == IF FsExists(f, PROJECTS) THEN FsCopy(f, PROJECTS, BACKUP, {})
              ELSE f
        f2 == FsOpenW(f1, TMP, {})
        f3 == [f2 EXCEPT !.inode[f2.dir[TMP]] = Serialize(data)]
    IN FsReplace(f3, TMP, PROJECTS, {})

\* _save_json_file stopped by an OSError while the temporary file is written
SaveJsonFileFails(f, data) ==
    LET f1 == IF FsExists(f, PROJECTS) THEN FsCopy(f, PROJECTS, BACKUP, {})
              ELSE f
        f2 == FsOpenW(f1, TMP, {})
    IN FsWriteAt(f2, f2.dir[TMP], 1, Serialize(data)[1])

\* project_name is the provider of the instance, not the key
ProjectDataProviderName(name, inst, t) ==
    [id |-> inst.id, name |-> inst.name, ip |-> inst.ip,
     provider |-> inst.provider, status |-> inst.status,
     created_at |-> inst.created_at, metadata |-> inst.metadata,
     project_name |-> inst.provider, added_at |-> t, last_accessed |-> t]

\* the status of the instance is not stored
ProjectDataNoStatus(name, inst, t) ==
    [id |-> inst.id, name |-> inst.name, ip |-> inst.ip,
     provider |-> inst.provider, status |-> "unknown",
     created_at |-> inst.created_at, metadata |-> inst.metadata,
     project_name |-> name, added_at |-> t, last_accessed |-> t]

\* asdict(instance) plus the bookkeeping fields
ProjectData(name, inst, t) ==
    [id |-> inst.id, name |-> inst.name, ip |-> inst.ip,
     provider |-> inst.provider, status |-> inst.status,
     created_at |-> inst.created_at, metadata |-> inst.metadata,
     project_name |-> name, added_at |-> t, last_accessed |-> t]

PutDoc(d, k, v) == [n \in DOMAIN d \cup {k} |-> IF n = k THEN v ELSE d[n]]
DelDoc(d, k) == [n \in DOMAIN d \ {k} |-> d[n]]

\* the duplicate check never finds the key
KeyPresentNever(d, name) == FALSE

\* name in projects
KeyPresent(d, name) == name \in DOMAIN d

\* add_project; io is the outcome of the file write ("ok" or "oserror")
add_project(f, rawname, inst, t, io) ==
    IF Strip(rawname) = "" THEN [status |-> "ValueError", fs |-> f]
    ELSE LET name == Strip(rawname)
             l == LoadJsonFile(f, PROJECTS)
         IN IF ~l.ok THEN [status |-> l.error, fs |-> f]
            ELSE IF KeyPresent(l.doc, name)
            THEN [status |-> "ProjectExistsError", fs |-> f]
            ELSE LET d == PutDoc(l.doc, name, ProjectData(name, inst, t))
                 IN IF io = "ok"
                    THEN [status |-> "ok", fs |-> SaveJsonFile(f, d)]
                    ELSE [status |-> "ConfigError",
                          fs |-> SaveJsonFileFails(f, d)]

\* get_project: None ("absent") for an empty name or a missing key
get_project(f, rawname) ==
    IF rawname = "" THEN [status |-> "absent"]
    ELSE LET l == LoadJsonFile(f, PROJECTS)
         IN IF ~l.ok THEN [status |-> l.error]
            ELSE IF Strip(rawname) \in DOMAIN l.doc
            THEN [status |-> "found", data |-> l.doc[Strip(rawname)]]
            ELSE [status |-> "absent"]

\* remove_project without the check that the key is present
remove_project_unchecked(f, rawname, io) ==
    LET l == LoadJsonFile(f, PROJECTS) IN
    [status |-> "ok", fs |-> SaveJsonFile(f, DelDoc(l.doc, Strip(rawname)))]

\* remove_project
remove_project(f, rawname, io) ==
    IF rawname = "" THEN [status |-> "ValueError", fs |-> f]
    ELSE LET name == Strip(rawname)
             l == LoadJsonFile(f, PROJECTS)
         IN IF ~l.ok THEN [status |-> l.error, fs |-> f]
            ELSE IF name \notin DOMAIN l.doc
            THEN [status |-> "ProjectNotFoundError", fs |-> f]
            ELSE IF io = "ok"
                 THEN [status |-> "ok",
                       fs |-> SaveJsonFile(f, DelDoc(l.doc, name))]
                 ELSE [status |-> "ConfigError",
                       fs |-> SaveJsonFileFails(f, DelDoc(l.doc, name))]

\* the document the store holds, EmptyDoc when unreadable
StoreDoc == LoadJsonFile(fs, PROJECTS).doc
InStore(name) == LoadJsonFile(fs, PROJECTS).ok /\ name \in DOMAIN StoreDoc

(***************************************************************************)
(* Provider client (providers/hetzner.py)                                  *)
(***************************************************************************)
NoInstance == [id |-> 0, name |-> <<"", 0>>, ip |-> 0, provider |-> "",
               status |-> "", created_at |-> 0,
               metadata |-> [server_type |-> "", region |-> "",
                             hardening_level |-> ""]]

\* _get_claude_setup_script: the authentication part of the bootstrap script
GetClaudeSetupScript(claude_json_content) ==
    IF claude_json_content = "" THEN "# No Claude authentication provided"
    ELSE claude_json_content

\* _get_hardening_script
GetHardeningScript(hardening_level) ==
    CASE hardening_level = "none" -> "# No security hardening applied"
      [] hardening_level = "minimal" -> "# Minimal security hardening"
      [] hardening_level = "full" -> "# Full security hardening"
      [] OTHER -> "# Unknown hardening level"

\* server_name = f"clwd-{name}-{int(time.time())}": the project name and the
\* clock's whole seconds
ServerName(name, seconds) == <<name, seconds>>

\* _generate_cloud_init_script: the parts of the script, in order
GenerateCloudInitScript(name, hardening_level, claude_json_content) ==
    <<"base", "nodejs", GetClaudeSetupScript(claude_json_content), "nginx",
      GetHardeningScript(hardening_level), "touch /tmp/clwd-setup-complete">>

(***************************************************************************)
(* SSH session manager (utils/ssh.py)                                      *)
(***************************************************************************)
\* the address of a server as text
IpText(ip) == "10.0.0." \o ToString(ip)

\* session_key = f"{user}@{ip}"
SessionKey(user, ip) == user \o "@" \o ip

\* self._sessions = {}
NoSessions == [k \in {} |-> 0]

\* a serial no SSHOperations object in the cache or in a caller's hands has
Fresh(cache, h) ==
    LET used == {cache[k].serial : k \in DOMAIN cache}
                  \cup {h[q].session.serial : q \in DOMAIN h}
    IN IF used = {} THEN 1
       ELSE 1 + CHOOSE m \in used : \A x \in used : x <= m

\* get_session: the cached object of the key, or a new SSHOperations(ip, user)
\* put into the cache
get_session(cache, ip, user, serial) ==
    LET session_key == SessionKey(user, ip)
        new == [ip |-> ip, user |-> user, serial |-> serial]
    IN IF session_key \in DOMAIN cache
       THEN [cache |-> cache, session |-> cache[session_key]]
       ELSE [cache |-> [k \in DOMAIN cache \cup {session_key} |->
                          IF k = session_key THEN new ELSE cache[k]],
             session |-> new]

\* the cache is left as it is
remove_session_keeps(cache, ip, user) == cache

\* remove_session: self._sessions.pop(session_key, None)
remove_session(cache, ip, user) ==
    [k \in DOMAIN cache \ {SessionKey(user, ip)} |-> cache[k]]

\* clear_all_sessions: self._sessions.clear()
clear_all_sessions == NoSessions

\* every session handed out is stale (removed for its pair, or all cleared)
\* or evicted (its key was removed, or all cleared)
Invalidate(h, stale, evicted) ==
    [q \in DOMAIN h |->
       [h[q] EXCEPT !.stale = @ \/ q \in stale, !.evicted = @ \/ q \in evicted]]

\* the session a caller holds for (ip, user) after a get_session
Hand(h, ip, user, session) ==
    [q \in DOMAIN h \cup {<<ip, user>>} |->
       IF q = <<ip, user>>
       THEN [session |-> session, stale |-> FALSE, evicted |-> FALSE]
       ELSE h[q]]

(***************************************************************************)
(* init command and _init_async (cli/main.py)                              *)
(***************************************************************************)
NoArgs == [cmd |-> "", name |-> "", provider |-> "", size |-> "",
           hardening |-> "", region |-> "", skip_auth |-> FALSE,
           force |-> FALSE]

Exit(code, msg) ==
    /\ pc' = "exited"
    /\ exit_code' = code
    /\ message' = msg

\* a provisioning step that fails: the exception leaves _init_async
StepFails(step, msg) ==
    /\ steps' = Append(steps, step)
    /\ failed' = step
    /\ UNCHANGED succeeded
    /\ Exit(1, msg)

\* the credential transfer is run in every provisioning
TransferWantedAlways == TRUE

\* the condition guarding the credential transfer
TransferWanted == ~args.skip_auth /\ credentials_json # ""

\* NextStep with the credential preparation left out
NextStepNoAuth(step) ==
    CASE step = "resolve_provider" -> "create_instance"
      [] step = "prepare_auth" -> "create_instance"
      [] step = "create_instance" -> "wait_for_ssh"
      [] step = "wait_for_ssh" -> "add_project"
      [] step = "add_project" -> "wait_for_setup_complete"
      [] step = "wait_for_setup_complete" ->
           IF TransferWanted THEN "credential_transfer" ELSE "exited"
      [] OTHER -> "exited"

\* NextStep with the project saved before the reachability polling
NextStepSaveEarly(step) ==
    CASE step = "resolve_provider" ->
           IF args.skip_auth THEN "create_instance" ELSE "prepare_auth"
      [] step = "prepare_auth" -> "create_instance"
      [] step = "create_instance" -> "add_project"
      [] step = "add_project" -> "wait_for_ssh"
      [] step = "wait_for_ssh" -> "wait_for_setup_complete"
      [] step = "wait_for_setup_complete" ->
           IF TransferWanted THEN "credential_transfer" ELSE "exited"
      [] OTHER -> "exited"

\* NextStep with the project saved after the setup-completion polling
NextStepSaveLate(step) ==
    CASE step = "resolve_provider" ->
           IF args.skip_auth THEN "create_instance" ELSE "prepare_auth"
      [] step = "prepare_auth" -> "create_instance"
      [] step = "create_instance" -> "wait_for_ssh"
      [] step = "wait_for_ssh" -> "wait_for_setup_complete"
      [] step = "wait_for_setup_complete" -> "add_project"
      [] step = "add_project" ->
           IF TransferWanted THEN "credential_transfer" ELSE "exited"
      [] OTHER -> "exited"

\* the order of the steps of _init_async: the step run after a step that
\* succeeded ("exited": the success message and the return)
NextStep(step) ==
    CASE step = "resolve_provider" ->
           IF args.skip_auth THEN "create_instance" ELSE "prepare_auth"
      [] step = "prepare_auth" -> "create_instance"
      [] step = "create_instance" -> "wait_for_ssh"
      [] step = "wait_for_ssh" -> "add_project"
      [] step = "add_project" -> "wait_for_setup_complete"
      [] step = "wait_for_setup_complete" ->
           IF TransferWanted THEN "credential_transfer" ELSE "exited"
      [] OTHER -> "exited"

\* asyncio.run raises KeyboardInterrupt for a main task that was cancelled
Cancelled == Exit(1, "Operation cancelled by user")

\* control passes to the step after one that succeeded; a coroutine that
\* returns after its task was asked to cancel ends the task as cancelled
Continue(step) ==
    IF NextStep(step) = "exited"
    THEN IF must_cancel THEN Cancelled ELSE Exit(0, "created successfully")
    ELSE /\ pc' = NextStep(step)
         /\ UNCHANGED <<exit_code, message>>

StepSucceeds(step) ==
    /\ steps' = Append(steps, step)
    /\ succeeded' = succeeded \cup {step}
    /\ Continue(step)
    /\ UNCHANGED failed

\* no project is ever found to exist
project_exists_never(f, name) == FALSE

\* project_exists: self.get_project(name) is not None
project_exists(f, name) == get_project(f, name).status = "found"

\* init: name check, project_exists check, then _init_async.  A behaviour
\* holds one init, run on the store of the initial state; the invocations
\* after it are destroys.
InitCmd ==
    /\ pc = "idle"
    /\ runs = 0
    /\ runs' = runs + 1
    /\ \E n \in {"demo", " demo ", "  ", ""}, p \in Providers, s \in Sizes,
          h \in HardeningLevels, r \in RegionArgs, k \in BOOLEAN :
         /\ args' = [cmd |-> "init", name |-> n, provider |-> p, size |-> s,
                     hardening |-> h, region |-> r, skip_auth |-> k,
                     force |-> FALSE]
         /\ IF n = "" THEN Exit(1, "Project name is required")
            ELSE IF project_exists(fs, n)
            THEN Exit(1, "Project already exists")
            ELSE IF get_project(fs, n).status # "absent"
            THEN \* the exception of project_exists leaves init
                 Exit(1, get_project(fs, n).status)
            ELSE /\ pc' = "resolve_provider"
                 /\ UNCHANGED <<exit_code, message>>
    /\ UNCHANGED <<fs, cloudVars, cloud_provider, credentials_json,
                   session_json, instance, elapsed, attempts, sshUpAt,
                   lastProbe, sessions, steps, succeeded, failed, apiCalls,
                   createCalls, user_data, destroyOk, attempted, sp,
                   call, backups, handed, must_cancel>>

\* HetznerProvider(region=region or "nbg1"), or ValueError for another kind
ResolveProvider ==
    /\ pc = "resolve_provider"
    /\ LET region == IF args.region = "" THEN "nbg1" ELSE args.region IN
       \E token \in BOOLEAN, api \in {"ok", "APIException"} :
         IF args.provider # "hetzner"
         THEN /\ StepFails("resolve_provider",
                           "Unexpected error: Unsupported provider")
              /\ UNCHANGED <<apiCalls, cloud_provider>>
         ELSE IF ~token
         THEN /\ StepFails("resolve_provider",
                           "Provider error: Hetzner API token not provided")
              /\ UNCHANGED <<apiCalls, cloud_provider>>
         ELSE IF region \notin REGIONS
         THEN /\ StepFails("resolve_provider",
                           "Unexpected error: Unsupported region")
              /\ UNCHANGED <<apiCalls, cloud_provider>>
         ELSE \* self.client.server_types.get_all(): test the connection
              /\ apiCalls' = apiCalls + 1
              /\ IF api = "ok"
                 THEN /\ StepSucceeds("resolve_provider")
                      /\ cloud_provider' = region
                 ELSE /\ StepFails("resolve_provider",
                        "Provider error: Failed to authenticate with Hetzner API")
                      /\ UNCHANGED cloud_provider
    /\ UNCHANGED <<fs, cloudVars, args, credentials_json, session_json,
                   instance, elapsed, attempts, sshUpAt, lastProbe, sessions,
                   createCalls, user_data, destroyOk, attempted, runs, sp,
                   call, backups, handed, must_cancel>>

\* AuthCheck without the check of the keychain credentials
AuthCheckLenient(c, s) ==
    IF s = "" THEN "No Claude Code session file found"
    ELSE "ok"

\* AuthCheck without the check of the session file
AuthCheckNoSession(c, s) ==
    IF c = "" THEN "No Claude Code credentials found in Keychain"
    ELSE "ok"

\* the fail-fast checks on what get_claude_authentication returned
AuthCheck(c, s) ==
    IF c = "" THEN "No Claude Code credentials found in Keychain"
    ELSE IF s = "" THEN "No Claude Code session file found"
    ELSE "ok"

\* get_claude_authentication and the fail-fast checks; sys.exit(1) on failure
PrepareAuth ==
    /\ pc = "prepare_auth"
    /\ \E c \in {"", "CREDENTIALS"}, s \in {"", "SESSION"}, raises \in BOOLEAN :
         IF raises
         THEN /\ StepFails("prepare_auth", "Could not prepare authentication")
              /\ UNCHANGED <<credentials_json, session_json>>
         ELSE /\ credentials_json' = c
              /\ session_json' = s
              /\ IF AuthCheck(c, s) = "ok"
                 THEN StepSucceeds("prepare_auth")
                 ELSE StepFails("prepare_auth", AuthCheck(c, s))
    /\ UNCHANGED <<fs, cloudVars, args, cloud_provider, instance, elapsed,
                   attempts, sshUpAt, lastProbe, sessions, apiCalls,
                   createCalls, user_data, destroyOk, attempted, runs, sp,
                   call, backups, handed, must_cancel>>

\* the session content passed on to the bootstrap script
InitClaudeJsonContentLeak == session_json

\* the claude_json_content argument _init_async passes to create_instance
InitClaudeJsonContent == ""

\* every APIException of servers.create is reported as a creation failure
CreateErrorMessageNoQuota(out) ==
    "Provider error: Failed to create Hetzner instance"

\* except APIException: QuotaExceededError when the text of the exception
\* contains "quota", ProviderError otherwise; _init_async prefixes either
CreateErrorMessage(out) ==
    IF out = "quota" THEN "Provider error: Hetzner quota exceeded"
    ELSE "Provider error: Failed to create Hetzner instance"

\* cloud_provider.create_instance(name, size, hardening, claude_json_content)
CreateInstance ==
    /\ pc = "create_instance"
    /\ nextId <= MaxServers
    /\ \E out \in {"no_ssh_key", "key_api_error", "no_server_type", "no_image",
                   "quota", "api_error", "ok"},
          st \in ServerStatuses :
         /\ lastProbe' = IF args.size \notin SIZE_MAP THEN "" ELSE out
         /\ IF args.size \notin SIZE_MAP
            THEN /\ StepFails("create_instance",
                              "Unexpected error: Unsupported size")
                 /\ UNCHANGED <<apiCalls, createCalls, user_data, instance,
                                servers, nextId, wall>>
            ELSE IF out = "no_ssh_key"
            THEN /\ StepFails("create_instance",
                              "Unexpected error: No SSH key found")
                 /\ UNCHANGED <<apiCalls, createCalls, user_data, instance,
                                servers, nextId, wall>>
            ELSE IF out = "key_api_error"
            THEN /\ StepFails("create_instance",
                              "Provider error: Failed to upload SSH key to Hetzner")
                 /\ apiCalls' = apiCalls + 1
                 /\ UNCHANGED <<createCalls, user_data, instance, servers,
                                nextId, wall>>
            ELSE IF out = "no_server_type"
            THEN /\ StepFails("create_instance",
                              "Provider error: Server type not found")
                 /\ apiCalls' = apiCalls + 2
                 /\ UNCHANGED <<createCalls, user_data, instance, servers,
                                nextId, wall>>
            ELSE IF out = "no_image"
            THEN /\ StepFails("create_instance",
                              "Provider error: Ubuntu 24.04 image not found")
                 /\ apiCalls' = apiCalls + 3
                 /\ UNCHANGED <<createCalls, user_data, instance, servers,
                                nextId, wall>>
            ELSE \* self.client.servers.create(..., user_data=user_data, ...)
                 /\ apiCalls' = apiCalls + 4
                 /\ createCalls' = createCalls + 1
                 /\ user_data' = GenerateCloudInitScript(args.name, args.hardening,
                                                         InitClaudeJsonContent)
                 /\ wall' = wall
                 /\ IF out \in {"quota", "api_error"}
                    THEN /\ StepFails("create_instance", CreateErrorMessage(out))
                         /\ UNCHANGED <<instance, servers, nextId>>
                    ELSE /\ StepSucceeds("create_instance")
                         /\ servers' = servers \cup {nextId}
                         /\ nextId' = nextId + 1
                         /\ instance' =
                              [id |-> nextId,
                               name |-> ServerName(args.name, wall),
                               ip |-> nextId, provider |-> "hetzner",
                               status |-> st, created_at |-> wall',
                               metadata |-> [server_type |-> args.size,
                                             region |-> cloud_provider,
                                             hardening_level |-> args.hardening]]
    /\ UNCHANGED <<fs, remote, args, cloud_provider, credentials_json,
                   session_json, elapsed, attempts, sshUpAt,
                   sessions, destroyOk, attempted, runs, sp,
                   call, backups, handed, must_cancel>>

\* wait_for_ssh entered: start_time = loop.time()
WaitForSshStart ==
    /\ pc = "wait_for_ssh"
    /\ pc' = "ssh_loop"
    /\ steps' = Append(steps, "wait_for_ssh")
    /\ elapsed' = 0
    /\ attempts' = 0
    /\ \E n \in {Never} \cup (1..MaxN) : sshUpAt' = n
    /\ UNCHANGED <<fs, cloudVars, args, cloud_provider, credentials_json,
                   session_json, instance, lastProbe, sessions, exit_code,
                   message, succeeded, failed, apiCalls, createCalls,
                   user_data, destroyOk, attempted, runs, sp,
                   call, backups, handed, must_cancel>>

\* the loop condition with the bound included
SshLoopConditionLate(e, timeout) == e <= timeout

\* the loop condition of wait_for_ssh
SshLoopCondition(e, timeout) == e < timeout

\* the simulated connector: connect_ex returns 0 from attempt sshUpAt on
ConnectSucceeds(n) == sshUpAt # Never /\ n >= sshUpAt

\* one pass of the wait_for_ssh loop: the loop check, one connection attempt,
\* then the settle delay and return True, or the retry sleep
WaitForSsh ==
    /\ pc = "ssh_loop"
    /\ IF must_cancel
       THEN \* CancelledError is thrown into the pending asyncio.sleep
            /\ Cancelled
            /\ UNCHANGED <<elapsed, attempts, lastProbe, succeeded, failed>>
       ELSE IF ~SshLoopCondition(elapsed, SshTimeout)
       THEN \* return False; _init_async raises ProviderError
            /\ failed' = "wait_for_ssh"
            /\ Exit(1, "Provider error: Instance created but SSH is not available after 5 minutes")
            /\ UNCHANGED <<elapsed, attempts, lastProbe, succeeded>>
       ELSE \E d \in {0, ConnectTimeout}, kind \in {"refused", "raised"} :
            /\ attempts' = IF attempts <= MaxN THEN attempts + 1 ELSE attempts
            /\ IF ConnectSucceeds(attempts + 1)
               THEN /\ lastProbe' = "connected"
                    /\ elapsed' = elapsed + d + SshSettle
                    /\ succeeded' = succeeded \cup {"wait_for_ssh"}
                    /\ Continue("wait_for_ssh")
                    /\ UNCHANGED failed
               ELSE /\ lastProbe' = kind
                    /\ elapsed' = elapsed + d + SshInterval
                    /\ UNCHANGED <<pc, succeeded, failed, exit_code, message>>
    /\ UNCHANGED <<fs, cloudVars, args, cloud_provider, credentials_json,
                   session_json, instance, sshUpAt, sessions, steps, apiCalls,
                   createCalls, user_data, destroyOk, attempted, runs, sp,
                   call, backups, handed, must_cancel>>

\* config.add_project(name, instance)
AddProject ==
    /\ pc = "add_project"
    /\ \E io \in {"ok", "oserror"} :
         LET r == add_project(fs, args.name, instance, wall, io) IN
         /\ fs' = r.fs
         /\ IF r.status = "ok"
            THEN StepSucceeds("add_project")
            ELSE IF r.status = "ValueError"
            THEN StepFails("add_project",
                           "Unexpected error: Project name cannot be empty")
            ELSE IF r.status = "ProjectExistsError"
            THEN StepFails("add_project",
                           "Unexpected error: Project already exists")
            ELSE StepFails("add_project", "Unexpected error: Failed to save")
    \* the sockets of wait_for_ssh are gone
    /\ elapsed' = 0
    /\ attempts' = 0
    /\ sshUpAt' = Never
    /\ lastProbe' = ""
    /\ UNCHANGED <<cloudVars, args, cloud_provider, credentials_json,
                   session_json, instance, sessions, apiCalls, createCalls,
                   user_data, destroyOk, attempted, runs, sp,
                   call, backups, handed, must_cancel>>

\* ssh_manager.get_session(instance.ip, "root"); wait_for_setup_complete
\* entered: start_time = loop.time()
WaitForSetupStart ==
    /\ pc = "wait_for_setup_complete"
    /\ pc' = "setup_loop"
    /\ steps' = Append(steps, "wait_for_setup_complete")
    /\ LET r == get_session(sessions, IpText(instance.ip), "root",
                            Fresh(sessions, handed)) IN
         /\ sessions' = r.cache
         /\ handed' = Hand(handed, IpText(instance.ip), "root", r.session)
    /\ elapsed' = 0
    /\ UNCHANGED <<fs, cloudVars, args, cloud_provider, credentials_json,
                   session_json, instance, attempts, sshUpAt, lastProbe,
                   exit_code,
                   message, succeeded, failed, apiCalls, createCalls,
                   user_data, destroyOk, attempted, runs, sp,
                   call, backups, must_cancel>>

\* one pass of the wait_for_setup_complete loop: the probe
\* "test -f /tmp/clwd-setup-complete", then return True, the timeout check
\* and return False, or the retry sleep
WaitForSetupComplete ==
    /\ pc = "setup_loop"
    /\ elapsed < MaxElapsed
    /\ \E probe \in {"exit0", "nonzero", "SSHError"}, d \in {0, ProbeTimeout} :
         /\ lastProbe' = probe
         /\ IF probe = "exit0"
            THEN \* return True
                 /\ elapsed' = elapsed + d
                 /\ succeeded' = succeeded \cup {"wait_for_setup_complete"}
                 /\ Continue("wait_for_setup_complete")
                 /\ UNCHANGED failed
            ELSE IF probe = "nonzero"
            THEN IF (elapsed + d) > SetupTimeout
                 THEN \* return False; _init_async raises ProviderError
                      /\ elapsed' = elapsed + d
                      /\ failed' = "wait_for_setup_complete"
                      /\ Exit(1, "Provider error: Instance setup did not complete after 5 minutes")
                      /\ UNCHANGED succeeded
                 ELSE /\ elapsed' = elapsed + d + SetupInterval
                      /\ UNCHANGED <<pc, succeeded, failed, exit_code, message>>
            ELSE \* except SSHError: sleep and continue
                 /\ elapsed' = elapsed + d + SetupInterval
                 /\ UNCHANGED <<pc, succeeded, failed, exit_code, message>>
    /\ UNCHANGED <<fs, cloudVars, args, cloud_provider, credentials_json,
                   session_json, instance, attempts, sshUpAt, sessions, steps,
                   apiCalls, createCalls, user_data, destroyOk, attempted,
                   runs, sp,
                   call, backups, handed, must_cancel>>

\* a failed credential transfer propagated as an error
TransferAbort == Exit(1, "Unexpected error: Could not copy credentials via SSH")

\* the except clause around the credential transfer: a warning, then the
\* success message
TransferWarning == Exit(0, "created successfully")

CREDENTIALS_PATH == "~/.claude/.credentials.json"
SESSION_PATH == "~/.claude.json"
SETTINGS_PATH == "~/.claude/settings.json"

\* ssh_manager.clear_all_sessions(): the first statement of the transfer
TransferClear ==
    /\ pc = "credential_transfer"
    /\ pc' = "transfer_settle"
    /\ steps' = Append(steps, "credential_transfer")
    /\ sessions' = clear_all_sessions
    /\ handed' = Invalidate(handed, DOMAIN handed, DOMAIN handed)
    /\ UNCHANGED <<fs, cloudVars, args, cloud_provider, credentials_json,
                   session_json, instance, elapsed, attempts, sshUpAt,
                   lastProbe, exit_code, message, succeeded, failed, apiCalls,
                   createCalls, user_data, destroyOk, attempted, runs, sp,
                   call, backups, must_cancel>>

\* await asyncio.sleep(3); CancelledError is thrown into it when the task was
\* asked to cancel
TransferSettle ==
    /\ pc = "transfer_settle"
    /\ IF must_cancel
       THEN Cancelled
       ELSE /\ pc' = "transfer_connect"
            /\ UNCHANGED <<exit_code, message>>
    /\ UNCHANGED <<fs, cloudVars, args, cloud_provider, credentials_json,
                   session_json, instance, elapsed, attempts, sshUpAt,
                   lastProbe, sessions, steps, succeeded, failed, apiCalls,
                   createCalls, user_data, destroyOk, attempted, runs, sp,
                   call, backups, handed, must_cancel>>

\* the transfer goes on whatever the connection test returned
TransferProceedsAlways(connected) == TRUE

\* if not ssh_session.test_connection(timeout=10): raise Exception(...)
TransferProceeds(connected) == connected

\* ssh_session = get_session(ip, "claude-user"), then
\* ssh_session.test_connection(timeout=10)
TransferConnect ==
    /\ pc = "transfer_connect"
    /\ LET r == get_session(sessions, IpText(instance.ip), "claude-user",
                            Fresh(sessions, handed)) IN
         /\ sessions' = r.cache
         /\ handed' = Hand(handed, IpText(instance.ip), "claude-user",
                           r.session)
    /\ \E connected \in BOOLEAN :
         /\ lastProbe' = IF connected THEN "connected" ELSE "refused"
         /\ IF TransferProceeds(connected)
            THEN /\ pc' = "transfer_mkdir"
                 /\ UNCHANGED <<exit_code, message>>
            ELSE TransferWarning
    /\ UNCHANGED <<fs, cloudVars, args, cloud_provider, credentials_json,
                   session_json, instance, elapsed, attempts, sshUpAt,
                   steps, succeeded, failed, apiCalls, createCalls,
                   user_data, destroyOk, attempted, runs, sp,
                   call, backups, must_cancel>>

\* ssh_session.execute_command("mkdir -p ~/.claude", timeout=30)
TransferMkdir ==
    /\ pc = "transfer_mkdir"
    /\ \E out \in {"exit0", "nonzero", "SSHError"} :
         IF out = "SSHError"
         THEN TransferWarning
         ELSE /\ pc' = "transfer_credentials"
              /\ UNCHANGED <<exit_code, message>>
    /\ UNCHANGED <<fs, cloudVars, args, cloud_provider, credentials_json,
                   session_json, instance, elapsed, attempts, sshUpAt,
                   lastProbe, sessions, steps, succeeded, failed, apiCalls,
                   createCalls, user_data, destroyOk, attempted, runs, sp,
                   call, backups, handed, must_cancel>>

\* every failed copy ends the transfer
CopyEndsTransferOnFailure(out) == out # "copied"

\* only an exception leaves the try block around the three copies; a copy
\* that returned False is followed by the next one
CopyEndsTransfer(out) == out = "raises"

\* one copy of the transfer: the temporary file is written and
\* copy_file_to_remote returns True or False (scp exited non-zero or timed
\* out), or an exception is raised (the temporary file cannot be written,
\* scp cannot be started) and caught by the except clause of the transfer
CopyStep(at, path, content, next) ==
    /\ pc = at
    /\ attempted' = attempted \cup {path}
    /\ \E out \in {"copied", "false", "raises"} :
         /\ lastProbe' = out
         /\ remote' = IF out = "copied"
                      THEN remote \cup {[id |-> instance.id, path |-> path,
                                         content |-> content]}
                      ELSE remote
         /\ IF CopyEndsTransfer(out)
            THEN TransferWarning
            ELSE IF next = "exited"
                 THEN Exit(0, "created successfully")
                 ELSE /\ pc' = next
                      /\ UNCHANGED <<exit_code, message>>
    /\ UNCHANGED <<fs, servers, nextId, wall, args, cloud_provider,
                   credentials_json, session_json, instance, elapsed,
                   attempts, sshUpAt, sessions, steps, succeeded,
                   failed, apiCalls, createCalls, user_data, destroyOk, runs,
                   sp,
                   call, backups, handed, must_cancel>>

TransferCredentials ==
    CopyStep("transfer_credentials", CREDENTIALS_PATH, credentials_json,
             "transfer_session")

TransferSession ==
    CopyStep("transfer_session", SESSION_PATH, session_json,
             "transfer_settings")

TransferSettings ==
    CopyStep("transfer_settings", SETTINGS_PATH, "SETTINGS", "exited")

(***************************************************************************)
(* destroy command and _destroy_async (cli/main.py)                        *)
(***************************************************************************)
\* get_project_instance: the Instance fields of the stored record
InstanceOf(data) ==
    [id |-> data.id, name |-> data.name, ip |-> data.ip,
     provider |-> data.provider, status |-> data.status,
     created_at |-> data.created_at, metadata |-> data.metadata]

\* interactive_project_selection: the project the user picks from the table,
\* None when the store cannot be loaded, is empty or the user quits
InteractiveProjectSelection(f, choice) ==
    LET l == LoadJsonFile(f, PROJECTS) IN
    IF ~l.ok THEN [name |-> "", said |-> "Error loading projects"]
    ELSE IF l.doc = EmptyDoc THEN [name |-> "", said |-> "No projects found."]
    ELSE IF choice \notin DOMAIN l.doc THEN [name |-> "", said |-> "quit"]
    ELSE [name |-> choice, said |-> ""]

\* the destruction goes on whatever was answered
ConfirmedAlways(force, answer) == TRUE

\* if not force: if not click.confirm(...): return
Confirmed(force, answer) == force \/ answer = "y"

\* destroy: the name given or selected, lookup, confirmation, then
\* _destroy_async.  click.confirm returns the answer, or raises Abort (a
\* RuntimeError) at end of input, which the except clause of destroy reports
DestroyCmd ==
    /\ pc = "idle"
    /\ runs < MaxRuns
    /\ runs' = runs + 1
    /\ \E given \in {"demo", " demo ", ""}, choice \in {"demo", "q"},
          force \in BOOLEAN, answer \in {"y", "n", "abort"} :
         LET sel == IF given # "" THEN [name |-> given, said |-> ""]
                    ELSE InteractiveProjectSelection(fs, choice)
             n == sel.name
             g == get_project(fs, n)
         IN
         /\ args' = [NoArgs EXCEPT !.cmd = "destroy", !.name = n,
                                   !.force = force]
         /\ lastProbe' = IF g.status = "found" /\ ~force THEN answer ELSE ""
         /\ IF n = ""
            THEN \* sys.exit(0)  # User cancelled or no projects
                 Exit(0, sel.said)
                 /\ UNCHANGED instance
            ELSE IF g.status \notin {"found", "absent"}
            THEN Exit(1, "Error destroying project: " \o g.status)
                 /\ UNCHANGED instance
            ELSE IF g.status = "absent"
            THEN Exit(1, "Project not found")
                 /\ UNCHANGED instance
            ELSE IF ~force /\ answer = "abort"
            THEN Exit(1, "Error destroying project: ")
                 /\ UNCHANGED instance
            ELSE IF ~Confirmed(force, answer)
            THEN Exit(0, "Operation cancelled.")
                 /\ UNCHANGED instance
            ELSE /\ instance' = InstanceOf(g.data)
                 /\ pc' = "destroy_provider"
                 /\ UNCHANGED <<exit_code, message>>
    /\ UNCHANGED <<fs, cloudVars, cloud_provider, credentials_json,
                   session_json, elapsed, attempts, sshUpAt,
                   sessions, steps, succeeded, failed, apiCalls, createCalls,
                   user_data, destroyOk, attempted, sp,
                   call, backups, handed, must_cancel>>

\* _destroy_async without the provider's destroy call
DestroyNextStepNoDestroy(step) ==
    CASE step = "destroy_provider" -> "remove_project"
      [] OTHER -> "exited"

\* the order of the steps of _destroy_async
DestroyNextStep(step) ==
    CASE step = "destroy_provider" -> "destroy_instance"
      [] step = "destroy_instance" -> "remove_project"
      [] OTHER -> "exited"

\* HetznerProvider(region=instance.metadata.get("region", "nbg1"))
DestroyResolveProvider ==
    /\ pc = "destroy_provider"
    /\ \E token \in BOOLEAN, api \in {"ok", "APIException"} :
         IF instance.provider # "hetzner"
         THEN /\ Exit(1, "Failed to destroy instance: Unsupported provider")
              /\ UNCHANGED <<apiCalls, cloud_provider>>
         ELSE IF ~token
         THEN /\ Exit(1, "Failed to destroy instance: Hetzner API token not provided")
              /\ UNCHANGED <<apiCalls, cloud_provider>>
         ELSE IF instance.metadata.region \notin REGIONS
         THEN /\ Exit(1, "Failed to destroy instance: Unsupported region")
              /\ UNCHANGED <<apiCalls, cloud_provider>>
         ELSE /\ apiCalls' = apiCalls + 1
              /\ IF api = "ok"
                 THEN /\ pc' = DestroyNextStep("destroy_provider")
                      /\ cloud_provider' = instance.metadata.region
                      /\ UNCHANGED <<exit_code, message>>
                 ELSE /\ Exit(1, "Failed to destroy instance: Failed to authenticate with Hetzner API")
                      /\ UNCHANGED cloud_provider
    /\ UNCHANGED <<fs, cloudVars, args, credentials_json, session_json,
                   instance, elapsed, attempts, sshUpAt, lastProbe, sessions,
                   steps, succeeded, failed, createCalls, user_data,
                   destroyOk, attempted, runs, sp,
                   call, backups, handed, must_cancel>>

\* the lookup finds a server whatever the id
ServerFoundAlways(id) == TRUE

\* self.client.servers.get_by_id(int(instance_id)) returns a server
ServerFound(id) == id \in servers

\* cloud_provider.destroy_instance(instance.id)
DestroyInstance ==
    /\ pc = "destroy_instance"
    /\ apiCalls' = apiCalls + 1
    /\ \E api \in {"ok", "APIException"} :
         IF api = "APIException"
         THEN /\ Exit(1, "Failed to destroy instance: Failed to destroy instance")
              /\ UNCHANGED <<servers, destroyOk>>
         ELSE IF ~ServerFound(instance.id)
         THEN /\ Exit(1, "Failed to destroy instance: Instance not found")
              /\ UNCHANGED <<servers, destroyOk>>
         ELSE /\ servers' = servers \ {instance.id}
              /\ destroyOk' = TRUE
              /\ pc' = DestroyNextStep("destroy_instance")
              /\ UNCHANGED <<exit_code, message>>
    /\ UNCHANGED <<fs, nextId, remote, wall, args, cloud_provider,
                   credentials_json, session_json, instance, elapsed,
                   attempts, sshUpAt, lastProbe, sessions, steps, succeeded,
                   failed, createCalls, user_data, attempted, runs, sp,
                   call, backups, handed, must_cancel>>

\* config.remove_project(name)
RemoveProject ==
    /\ pc = "remove_project"
    /\ \E io \in {"ok", "oserror"} :
         LET r == remove_project(fs, args.name, io) IN
         /\ fs' = r.fs
         /\ IF r.status = "ok"
            THEN Exit(0, "destroyed successfully")
            ELSE Exit(1, "Failed to destroy instance: store error")
    /\ UNCHANGED <<cloudVars, args, cloud_provider, credentials_json,
                   session_json, instance, elapsed, attempts, sshUpAt,
                   lastProbe, sessions, steps, succeeded, failed, apiCalls,
                   createCalls, user_data, destroyOk, attempted, runs, sp,
                   call, backups, handed, must_cancel>>

(***************************************************************************)
(* Specification of the CLI: invocations run one after the other           *)
(***************************************************************************)
EmptyFs == [dir |-> [p \in Paths |-> 0], inode |-> [i \in Inodes |-> <<>>]]

\* no call of the store API made
NoExport == [made |-> FALSE, doc |-> EmptyDoc]
NoCall == [op |-> "", n |-> 0, name |-> "", status |-> "", before |-> EmptyDoc,
           inst |-> NoInstance, out |-> "", merge |-> FALSE, path |-> "",
           exported |-> NoExport, max_backups |-> 0, ip |-> "",
           ran |-> [how |-> ""]]

\* no *.backup file in the configuration directory
NoBackups == [n \in {} |-> 0]

\* no session returned yet
NoHanded == [p \in {} |-> 0]

NoProc == [pc |-> "off", name |-> "", inst |-> NoInstance, loaded |-> EmptyDoc,
           data |-> EmptyDoc, src |-> 0, bfd |-> 0, fd |-> 0, off |-> 0,
           result |-> "", after |-> {}, server_name |-> <<"", 0>>]

InitCli ==
    /\ pc = "idle"
    /\ args = NoArgs
    /\ cloud_provider = ""
    /\ credentials_json = ""
    /\ session_json = ""
    /\ instance = NoInstance
    /\ elapsed = 0
    /\ attempts = 0
    /\ sshUpAt = Never
    /\ lastProbe = ""
    /\ sessions = NoSessions
    /\ exit_code = -1
    /\ message = ""
    /\ steps = <<>>
    /\ succeeded = {}
    /\ failed = ""
    /\ apiCalls = 0
    /\ createCalls = 0
    /\ user_data = <<>>
    /\ destroyOk = FALSE
    /\ attempted = {}
    /\ runs = 0
    /\ must_cancel = FALSE

\* the record an earlier successful "init demo" left in the store
EarlierInstance ==
    [id |-> 1, name |-> <<"demo", 0>>, ip |-> 1, provider |-> "hetzner",
     status |-> "running", created_at |-> 0,
     metadata |-> [server_type |-> "small", region |-> "nbg1",
                   hardening_level |-> "none"]]

EarlierFs == add_project(EmptyFs, "demo", EarlierInstance, 0, "ok").fs

\* a store file that json.loads rejects: a truncated document
CorruptFs ==
    [EarlierFs EXCEPT !.inode[EarlierFs.dir[PROJECTS]] = SubSeq(@, 1, 1)]

\* the store is empty, or holds the project of an earlier init whose server
\* still exists or was deleted at the provider since, or is unreadable
Init ==
    /\ \/ fs = EmptyFs /\ servers = {} /\ nextId = 1 /\ wall = 0
       \/ fs = EarlierFs /\ servers \in {{1}, {}} /\ nextId = 2 /\ wall = 1
       \/ fs = CorruptFs /\ servers = {1} /\ nextId = 2 /\ wall = 1
    /\ remote = {}
    /\ InitCli
    /\ sp = [p \in Procs |-> NoProc]
    /\ call = NoCall
    /\ backups = NoBackups
    /\ handed = NoHanded

\* the process has exited; the next invocation is a new process
NextInvocation ==
    /\ pc = "exited"
    /\ runs < MaxRuns
    /\ pc' = "idle"
    /\ args' = NoArgs
    /\ cloud_provider' = ""
    /\ credentials_json' = ""
    /\ session_json' = ""
    /\ instance' = NoInstance
    /\ elapsed' = 0
    /\ attempts' = 0
    /\ sshUpAt' = Never
    /\ lastProbe' = ""
    /\ sessions' = NoSessions
    /\ exit_code' = -1
    /\ message' = ""
    /\ steps' = <<>>
    /\ succeeded' = {}
    /\ failed' = ""
    /\ apiCalls' = 0
    /\ createCalls' = 0
    /\ user_data' = <<>>
    /\ destroyOk' = FALSE
    /\ attempted' = {}
    /\ \E tick \in {0, 1} : wall' = IF wall < MaxWall THEN wall + tick ELSE wall
    /\ must_cancel' = FALSE
    /\ handed' = NoHanded
    /\ UNCHANGED <<fs, servers, nextId, remote, runs, sp, call, backups>>

Next ==
    \/ InitCmd
    \/ ResolveProvider
    \/ PrepareAuth
    \/ CreateInstance
    \/ WaitForSshStart
    \/ WaitForSsh
    \/ AddProject
    \/ WaitForSetupStart
    \/ WaitForSetupComplete
    \/ TransferClear
    \/ TransferSettle
    \/ TransferConnect
    \/ TransferMkdir
    \/ TransferCredentials
    \/ TransferSession
    \/ TransferSettings
    \/ DestroyCmd
    \/ DestroyResolveProvider
    \/ DestroyInstance
    \/ RemoveProject
    \/ NextInvocation

Spec == Init /\ [][Next]_vars

\* a SIGINT reaches the process during one of the two polling loops.  Without
\* a handler of asyncio.run, KeyboardInterrupt is raised in the blocking call
\* or sleep in progress and leaves asyncio.run; with the handler asyncio.run
\* installs, the main task is asked to cancel, which takes effect at its next
\* await.
Interrupt ==
    /\ pc \in {"ssh_loop", "setup_loop"}
    /\ ~must_cancel
    /\ \E handler \in {"default_int_handler", "asyncio"} :
         IF handler = "default_int_handler"
         THEN /\ Cancelled
              /\ UNCHANGED must_cancel
         ELSE /\ must_cancel' = TRUE
              /\ UNCHANGED <<pc, exit_code, message>>
    /\ UNCHANGED <<fs, cloudVars, args, cloud_provider, credentials_json,
                   session_json, instance, elapsed, attempts, sshUpAt,
                   lastProbe, sessions, steps, succeeded, failed, apiCalls,
                   createCalls, user_data, destroyOk, attempted, runs, sp,
                   call, backups, handed>>

NextInterrupt ==
    \/ Next
    \/ Interrupt

\* the CLI with external interrupts
SpecInterrupt == Init /\ [][NextInterrupt]_vars

(***************************************************************************)
(* Properties of provisioning and destruction                              *)
(***************************************************************************)
IsPrefix(s, t) == Len(s) <= Len(t) /\ \A i \in 1..Len(s) : s[i] = t[i]

ExpectedSteps ==
    <<"resolve_provider">>
    \o (IF args.skip_auth THEN <<>> ELSE <<"prepare_auth">>)
    \o <<"create_instance", "wait_for_ssh", "add_project",
         "wait_for_setup_complete">>
    \o (IF "prepare_auth" \in succeeded THEN <<"credential_transfer">>
        ELSE <<>>)

\* the record stored for the project of the invocation is its instance
RecordStored ==
    /\ get_project(fs, args.name).status = "found"
    /\ InstanceOf(get_project(fs, args.name).data) = instance

\* C1: the steps of provisioning start in the fixed order (credential
\* preparation only without skip_auth, credential transfer only when
\* credentials were prepared), each only after the one before it succeeded;
\* a failed step is the last one started and provisioning then exits with a
\* failure.
C1_StepsInOrder ==
    args.cmd = "init" =>
      /\ IsPrefix(steps, ExpectedSteps)
      /\ \A i \in 2..Len(steps) : steps[i-1] \in succeeded
      /\ failed # "" => /\ steps[Len(steps)] = failed
                        /\ pc = "exited"
                        /\ exit_code = 1
      /\ (pc = "exited" /\ exit_code = 0) =>
            "wait_for_setup_complete" \in succeeded

C1_Witness ==
    /\ args.cmd = "init"
    /\ ~args.skip_auth
    /\ failed = "wait_for_setup_complete"
    /\ Len(steps) = 6

\* C2: in a destroy, as long as the provider's destroy call has not returned
\* successfully the project record is in the store, and a destroy that ends
\* without it reports a failure.
C2_RecordKeptUnlessDestroyed ==
    (args.cmd = "destroy" /\ instance # NoInstance /\ ~destroyOk) =>
      /\ RecordStored
      /\ pc = "exited" => exit_code = 1

C2_Witness ==
    /\ args.cmd = "destroy"
    /\ pc = "exited"
    /\ message = "Failed to destroy instance: Failed to destroy instance"
    /\ RecordStored

\* the credential preparation of this provisioning yielded no credential
NoCredentialFound ==
    /\ args.cmd = "init"
    /\ ~args.skip_auth
    /\ \E i \in 1..Len(steps) : steps[i] = "prepare_auth"
    /\ credentials_json = ""

\* C3 (as claimed): when credential preparation yields no credential,
\* provisioning has made no call to the cloud provider at all, no
\* instance-creation request and no store write.
C3_Original ==
    NoCredentialFound =>
      /\ pc = "exited" /\ exit_code = 1
      /\ apiCalls = 0
      /\ createCalls = 0
      /\ fs \in {EmptyFs, EarlierFs}

\* C3 (amended): when credential preparation yields no credential,
\* provisioning exits with a failure having sent no instance-creation request
\* and written nothing to the store; the one provider call made is the
\* connection test of the provider's construction.
C3_FailFastBeforeCreation ==
    NoCredentialFound =>
      /\ pc = "exited" /\ exit_code = 1
      /\ apiCalls = 1
      /\ createCalls = 0
      /\ servers \subseteq {1}
      /\ fs \in {EmptyFs, EarlierFs}

C3_Witness ==
    /\ NoCredentialFound
    /\ message = "No Claude Code credentials found in Keychain"

\* C4: while the setup-completion polling runs and after it timed out, the
\* project record is in the store, it is the created instance and the
\* instance exists at the provider.
C4_RecordCommittedBeforeSetup ==
    (args.cmd = "init"
       /\ (pc = "setup_loop" \/ failed = "wait_for_setup_complete")) =>
      /\ RecordStored
      /\ instance.id \in servers

C4_Witness ==
    /\ args.cmd = "init"
    /\ failed = "wait_for_setup_complete"
    /\ message = "Provider error: Instance setup did not complete after 5 minutes"
    /\ RecordStored

\* C5 (as claimed): in every pass of the setup-completion polling, a probe
\* that fails once the timeout has elapsed makes the polling return "not
\* complete", "not complete" is returned only after the timeout, and
\* "complete" only after a probe that exited with 0.
C5_Original ==
    [][pc = "setup_loop" =>
         /\ (elapsed > SetupTimeout /\ lastProbe' # "exit0") =>
               (pc' = "exited" /\ failed' = "wait_for_setup_complete")
         /\ failed' = "wait_for_setup_complete" => elapsed' > SetupTimeout
         /\ "wait_for_setup_complete" \in succeeded' => lastProbe' = "exit0"
      ]_vars

\* C6: wait_for_ssh returns success only on a connection attempt that is at
\* least the connector's first succeeding one, never with a connector that
\* never succeeds; it returns failure only at a loop check at which the
\* timeout has elapsed, and every loop check at which it has elapsed returns
\* failure.
C6_ReachabilityPolling ==
    [][pc = "ssh_loop" =>
         /\ "wait_for_ssh" \in succeeded' =>
               (sshUpAt # Never /\ attempts' >= sshUpAt)
         /\ attempts' < sshUpAt => "wait_for_ssh" \notin succeeded'
         /\ failed' = "wait_for_ssh" =>
               (elapsed >= SshTimeout /\ pc' = "exited" /\ exit_code' = 1)
         /\ elapsed >= SshTimeout => failed' = "wait_for_ssh"
         /\ (elapsed < SshTimeout /\ ~ConnectSucceeds(attempts + 1)) =>
               (pc' = "ssh_loop" /\ elapsed' > elapsed)
      ]_vars

C6_Witness ==
    /\ "wait_for_ssh" \in succeeded
    /\ sshUpAt = 3
    /\ attempts = 3

\* C7: once the setup-completion polling has succeeded, provisioning never
\* fails: it exits with success whatever the credential transfer does, and
\* the project record stays in the store.
C7_TransferNeverFailsProvisioning ==
    (args.cmd = "init" /\ "wait_for_setup_complete" \in succeeded) =>
      /\ failed = ""
      /\ pc = "exited" => exit_code = 0
      /\ RecordStored

C7_Witness ==
    /\ args.cmd = "init"
    /\ pc = "exited"
    /\ exit_code = 0
    /\ \E i \in 1..Len(steps) : steps[i] = "credential_transfer"
    /\ attempted = {CREDENTIALS_PATH, SESSION_PATH}
    /\ remote = {}

Secrets == {"CREDENTIALS", "SESSION"}

\* C8: no part of the bootstrap payload of an instance-creation request is
\* credential or session content, and such content is on an instance only
\* after the credential transfer of the provisioning started.
C8_NoCredentialInBootstrap ==
    args.cmd = "init" =>
      /\ \A i \in 1..Len(user_data) : user_data[i] \notin Secrets
      /\ \A r \in remote :
           r.content \in Secrets =>
             \E i \in 1..Len(steps) : steps[i] = "credential_transfer"

C8_Witness ==
    /\ args.cmd = "init"
    /\ createCalls = 1
    /\ Len(user_data) = 6
    /\ credentials_json = "CREDENTIALS"
    /\ session_json = "SESSION"
    /\ \E r \in remote : r.content = "SESSION"

(***************************************************************************)
(* add_project and _save_json_file step by step, one process per CLI       *)
(* invocation (utils/config.py)                                            *)
(***************************************************************************)
AddNames == {"demo", "other"}

\* the instance process p has provisioned
ProcInstance(p, n) ==
    [id |-> p + 1, name |-> <<n, wall>>, ip |-> p + 1, provider |-> "hetzner",
     status |-> "running", created_at |-> wall,
     metadata |-> [server_type |-> "small", region |-> "nbg1",
                   hardening_level |-> "none"]]

\* the inodes the processes hold open
Held(q) == UNION {{q[p].src, q[p].bfd, q[p].fd} : p \in Procs} \ {0}

\* the processes whose add has returned successfully
Added == {p \in Procs : sp[p].pc = "done" /\ sp[p].result = "ok"}

storeUnchanged == <<cloudVars, cliVars, call, backups, handed>>

\* config.add_project(name, instance) is called
AddStart(p) ==
    /\ sp[p].pc = "off"
    /\ \E n \in AddNames :
         sp' = [sp EXCEPT ![p] = [NoProc EXCEPT !.pc = "load", !.name = n,
                                               !.inst = ProcInstance(p, n)]]
    /\ UNCHANGED <<fs, storeUnchanged>>

\* projects = self.load_projects() and the duplicate check
AddLoad(p) ==
    /\ sp[p].pc = "load"
    /\ LET l == LoadJsonFile(fs, PROJECTS)
           name == Strip(sp[p].name)
       IN sp' = [sp EXCEPT ![p] =
            IF ~l.ok
            THEN [@ EXCEPT !.pc = "done", !.result = l.error,
                           !.after = Added]
            ELSE IF KeyPresent(l.doc, name)
            THEN [@ EXCEPT !.pc = "done", !.result = "ProjectExistsError",
                           !.loaded = l.doc, !.after = Added]
            ELSE [@ EXCEPT !.pc = "backup", !.loaded = l.doc, !.after = Added,
                           !.data = PutDoc(l.doc, name,
                                      ProjectData(name, sp[p].inst, wall))]]
    /\ UNCHANGED <<fs, storeUnchanged>>

\* _save_json_file: if file_path.exists(), copy2 opens both files
SaveBackupOpen(p) ==
    /\ sp[p].pc = "backup"
    /\ IF FsExists(fs, PROJECTS)
       THEN LET g == FsOpenW(fs, BACKUP, Held(sp)) IN
            /\ fs' = g
            /\ sp' = [sp EXCEPT ![p].pc = "copy", ![p].src = fs.dir[PROJECTS],
                                ![p].bfd = g.dir[BACKUP]]
       ELSE /\ sp' = [sp EXCEPT ![p].pc = "open"]
            /\ UNCHANGED fs
    /\ UNCHANGED storeUnchanged

\* copy2 copies the content and closes the files
SaveBackupCopy(p) ==
    /\ sp[p].pc = "copy"
    /\ sp' = [sp EXCEPT ![p].pc = "open", ![p].src = 0, ![p].bfd = 0]
    /\ fs' = Collect([fs EXCEPT !.inode[sp[p].bfd] = fs.inode[sp[p].src]],
                     Held(sp'))
    /\ UNCHANGED storeUnchanged

\* temp_path.open('w')
SaveOpenTmp(p) ==
    /\ sp[p].pc = "open"
    /\ LET g == FsOpenW(fs, TMP, Held(sp)) IN
       /\ fs' = g
       /\ sp' = [sp EXCEPT ![p].pc = "write", ![p].fd = g.dir[TMP],
                           ![p].off = 0]
    /\ UNCHANGED storeUnchanged

\* json.dump(data, f, ...): the next chunk of the document is written
SaveWrite(p) ==
    /\ sp[p].pc = "write"
    /\ sp[p].off < NChunks
    /\ fs' = FsWriteAt(fs, sp[p].fd, sp[p].off + 1,
                       Serialize(sp[p].data)[sp[p].off + 1])
    /\ sp' = [sp EXCEPT ![p].off = @ + 1]
    /\ UNCHANGED storeUnchanged

\* the file is closed and temp_path.replace(file_path) renames it; an OSError
\* (no temporary file) is raised as ConfigError
SaveReplace(p) ==
    /\ sp[p].pc = "write"
    /\ sp[p].off = NChunks
    /\ LET q == [sp EXCEPT ![p].fd = 0] IN
       IF FsExists(fs, TMP)
       THEN /\ fs' = FsReplace(fs, TMP, PROJECTS, Held(q))
            /\ sp' = [q EXCEPT ![p].pc = "done", ![p].result = "ok"]
       ELSE /\ fs' = Collect(fs, Held(q))
            /\ sp' = [q EXCEPT ![p].pc = "done", ![p].result = "ConfigError"]
    /\ UNCHANGED storeUnchanged

\* the process is killed inside add_project
Crash(p) ==
    /\ sp[p].pc \in {"load", "backup", "copy", "open", "write"}
    /\ sp' = [sp EXCEPT ![p].pc = "crashed", ![p].src = 0, ![p].bfd = 0,
                        ![p].fd = 0]
    /\ fs' = Collect(fs, Held(sp'))
    /\ UNCHANGED storeUnchanged

InitStore ==
    /\ fs \in {EmptyFs, EarlierFs}
    /\ servers = {}
    /\ nextId = 1
    /\ remote = {}
    /\ wall = 1
    /\ InitCli
    /\ sp = [p \in Procs |-> NoProc]
    /\ call = NoCall
    /\ backups = NoBackups
    /\ handed = NoHanded

\* two invocations add concurrently
NextStore ==
    \E p \in Procs :
      \/ AddStart(p)
      \/ AddLoad(p)
      \/ SaveBackupOpen(p)
      \/ SaveBackupCopy(p)
      \/ SaveOpenTmp(p)
      \/ SaveWrite(p)
      \/ SaveReplace(p)

SpecStore == InitStore /\ [][NextStore]_vars

\* an invocation is started when no other one is running
AddStartAlone(p) ==
    /\ \A q \in Procs : sp[q].pc \in {"off", "done", "crashed"}
    /\ AddStart(p)

\* invocations run one after the other and may be killed at any point
NextCrash ==
    \E p \in Procs :
      \/ AddStartAlone(p)
      \/ AddLoad(p)
      \/ SaveBackupOpen(p)
      \/ SaveBackupCopy(p)
      \/ SaveOpenTmp(p)
      \/ SaveWrite(p)
      \/ SaveReplace(p)
      \/ Crash(p)

SpecCrash == InitStore /\ [][NextCrash]_vars

(***************************************************************************)
(* Properties of the store under concurrent invocations and crashes        *)
(***************************************************************************)
SameKey(p, q) ==
    /\ p # q
    /\ sp[p].pc # "off" /\ sp[q].pc # "off"
    /\ Strip(sp[p].name) = Strip(sp[q].name)

\* C9 (as claimed): of two adds of the same key that have both returned, at
\* most one succeeded, and when one succeeded the other failed with
\* ProjectExistsError.
C9_Original ==
    \A p, q \in Procs :
      (SameKey(p, q) /\ sp[p].pc = "done" /\ sp[q].pc = "done"
         /\ sp[p].result = "ok") =>
        sp[q].result = "ProjectExistsError"

\* C9 (amended): an add that loads the store after another add of the same
\* key has returned successfully fails with ProjectExistsError.
C9_AddAfterCommitRejected ==
    \A p, q \in Procs :
      (SameKey(p, q) /\ q \in sp[p].after /\ sp[p].pc = "done") =>
        sp[p].result = "ProjectExistsError"

C9_Witness ==
    \E p, q \in Procs :
      /\ SameKey(p, q)
      /\ q \in sp[p].after
      /\ sp[q].loaded = EmptyDoc
      /\ sp[p].result = "ProjectExistsError"

Writing == {"load", "backup", "copy", "open", "write"}

\* C10: every step of an invocation that is inside add_project, its being
\* killed included, leaves the store file parsable and holding either the
\* document it handed before the step or the complete new document; once the
\* invocation has loaded the store, that is the loaded document or the new one.
C10_CrashLeavesOldOrNew ==
    [][\A p \in Procs :
         sp[p].pc \in Writing =>
           LET n == LoadJsonFile(fs', PROJECTS) IN
           /\ n.ok
           /\ n.doc \in {StoreDoc, sp[p].data}
           /\ sp[p].pc # "load" => n.doc \in {sp[p].loaded, sp[p].data}
      ]_vars

C10_Witness ==
    \E p \in Procs :
      /\ sp[p].pc = "crashed"
      /\ sp[p].off = 1
      /\ FsExists(fs, TMP)
      /\ ~IsComplete(FsContent(fs, TMP))
      /\ FsExists(fs, PROJECTS)
      /\ StoreDoc = sp[p].loaded
      /\ sp[p].data # sp[p].loaded

\* the processes whose add_project reached _save_json_file
Wrote == {p \in Procs : sp[p].pc = "done" /\ sp[p].data # EmptyDoc}

\* C11 (as claimed): when both invocations have written the store, neither
\* write ended in an error and the store file holds exactly the complete
\* document one of them wrote.
C11_Original ==
    Wrote = Procs =>
      /\ \A p \in Procs : sp[p].result = "ok"
      /\ LoadJsonFile(fs, PROJECTS).ok
      /\ StoreDoc \in {sp[p].data : p \in Procs}

(***************************************************************************)
(* The other operations of the project store (utils/config.py), each as    *)
(* one whole call                                                          *)
(***************************************************************************)
\* dict.update(updates)
MergeDocs(d, u) ==
    [k \in DOMAIN d \cup DOMAIN u |-> IF k \in DOMAIN u THEN u[k] ELSE d[k]]

\* update_project with last_accessed refreshed before the updates are applied
update_project_refresh_first(f, rawname, updates, t, io) ==
    IF rawname = "" THEN [status |-> "ValueError", fs |-> f]
    ELSE LET name == Strip(rawname)
             l == LoadJsonFile(f, PROJECTS)
         IN IF ~l.ok THEN [status |-> l.error, fs |-> f]
            ELSE IF name \notin DOMAIN l.doc
            THEN [status |-> "ProjectNotFoundError", fs |-> f]
            ELSE LET r == MergeDocs([l.doc[name] EXCEPT !.last_accessed = t],
                                    updates)
                     d == PutDoc(l.doc, name, r)
                 IN IF io = "ok"
                    THEN [status |-> "ok", fs |-> SaveJsonFile(f, d)]
                    ELSE [status |-> "ConfigError",
                          fs |-> SaveJsonFileFails(f, d)]

\* update_project: the updates are applied, then last_accessed is refreshed
update_project(f, rawname, updates, t, io) ==
    IF rawname = "" THEN [status |-> "ValueError", fs |-> f]
    ELSE LET name == Strip(rawname)
             l == LoadJsonFile(f, PROJECTS)
         IN IF ~l.ok THEN [status |-> l.error, fs |-> f]
            ELSE IF name \notin DOMAIN l.doc
            THEN [status |-> "ProjectNotFoundError", fs |-> f]
            ELSE LET r == [MergeDocs(l.doc[name], updates)
                             EXCEPT !.last_accessed = t]
                     d == PutDoc(l.doc, name, r)
                 IN IF io = "ok"
                    THEN [status |-> "ok", fs |-> SaveJsonFile(f, d)]
                    ELSE [status |-> "ConfigError",
                          fs |-> SaveJsonFileFails(f, d)]

\* no field is checked
ValidInstanceUnchecked(i) == TRUE

\* Instance.__post_init__: id, name, ip and provider are not empty
ValidInstance(i) ==
    i.id # 0 /\ i.name # NoInstance.name /\ i.ip # 0 /\ i.provider # ""

\* get_project_instance: None ("absent") when there is no record
get_project_instance(f, rawname) ==
    LET g == get_project(f, rawname) IN
    IF g.status # "found" THEN g
    ELSE IF ~ValidInstance(InstanceOf(g.data)) THEN [status |-> "ValueError"]
    ELSE [status |-> "found", data |-> InstanceOf(g.data)]

\* the keys of the model in the order sort_keys=True writes them
KeyOrder == <<"demo", "other", "third">>

Summary(name, data) ==
    [project_name |-> name, status |-> data.status, ip |-> data.ip,
     provider |-> data.provider, created_at |-> data.created_at,
     last_accessed |-> data.last_accessed]

\* list.sort(reverse=True) keeps e before x when the keys are in ascending
\* order
KeepsBeforeAscending(e, x) == e.last_accessed <= x.last_accessed

\* list.sort(key=last_accessed, reverse=True) keeps e, which came before x,
\* before x
KeepsBefore(e, x) == e.last_accessed >= x.last_accessed

RECURSIVE Insert(_, _)
Insert(x, s) ==
    IF s = <<>> THEN <<x>>
    ELSE IF KeepsBefore(Head(s), x) THEN <<Head(s)>> \o Insert(x, Tail(s))
    ELSE <<x>> \o s

\* the stable sort of details.sort(..., reverse=True)
RECURSIVE SortDetails(_)
SortDetails(s) ==
    IF s = <<>> THEN <<>>
    ELSE Insert(s[Len(s)], SortDetails(SubSeq(s, 1, Len(s) - 1)))

\* list_project_details
list_project_details(f) ==
    LET l == LoadJsonFile(f, PROJECTS) IN
    IF ~l.ok THEN [status |-> l.error, out |-> <<>>]
    ELSE LET keys == SelectSeq(KeyOrder, LAMBDA k : k \in DOMAIN l.doc)
             details == [i \in 1..Len(keys) |-> Summary(keys[i], l.doc[keys[i]])]
         IN [status |-> "ok", out |-> SortDetails(details)]

\* the document export_projects writes
ExportData(projects, t) ==
    [exported_at |-> t, clwd_version |-> "1.0.0", projects |-> projects]

\* export_projects: the file is written in place
export_projects(f, path, t, io) ==
    LET l == LoadJsonFile(f, PROJECTS) IN
    IF ~l.ok THEN [status |-> l.error, fs |-> f]
    ELSE LET g == FsOpenW(f, path, {})
             c == Serialize(ExportData(l.doc, t))
         IN IF io = "ok"
            THEN [status |-> "ok", fs |-> [g EXCEPT !.inode[g.dir[path]] = c]]
            ELSE [status |-> "ConfigError",
                  fs |-> FsWriteAt(g, g.dir[path], 1, c[1])]

\* the imported set is always empty
ImportedProjectsNone(data) == EmptyDoc

\* import_data.get("projects", {})
ImportedProjects(data) ==
    IF "projects" \in DOMAIN data THEN data.projects ELSE EmptyDoc

\* on a collision the pre-existing record is kept
MergeKeepExisting(d, u) == MergeDocs(u, d)

\* existing_projects.update(imported_projects)
MergeImported(d, u) == MergeDocs(d, u)

\* import_projects
import_projects(f, path, merge, io) ==
    LET i == LoadJsonFile(f, path) IN
    IF ~FsExists(f, path) \/ ~i.ok THEN [status |-> "ConfigError", fs |-> f]
    ELSE LET imported == ImportedProjects(i.doc)
             l == LoadJsonFile(f, PROJECTS)
         IN IF merge /\ ~l.ok THEN [status |-> l.error, fs |-> f]
            ELSE LET d == IF merge THEN MergeImported(l.doc, imported)
                          ELSE imported
                 IN IF io = "ok"
                    THEN [status |-> "ok", fs |-> SaveJsonFile(f, d)]
                    ELSE [status |-> "ConfigError",
                          fs |-> SaveJsonFileFails(f, d)]

(***************************************************************************)
(* Specification of the store API: calls made one after the other by one   *)
(* process                                                                 *)
(***************************************************************************)
ApiNames == {"demo", " other ", ""}

\* the names of the calls that look at how names become keys
KeyNames == {"demo", " demo ", " other ", "", "  "}

\* an instance as create_instance returns it
ApiInstance(n) ==
    [id |-> 5, name |-> <<Strip(n), wall>>, ip |-> 5, provider |-> "hetzner",
     status |-> "running", created_at |-> wall,
     metadata |-> [server_type |-> "small", region |-> "fsn1",
                   hardening_level |-> "full"]]

\* the updates callers pass: update_project_status, and a caller's own
\* last_accessed
Updates == {[status |-> "off"], [last_accessed |-> 0]}

ThirdInstance ==
    [id |-> 3, name |-> <<"third", 0>>, ip |-> 3, provider |-> "hetzner",
     status |-> "running", created_at |-> 0,
     metadata |-> [server_type |-> "large", region |-> "hel1",
                   hardening_level |-> "none"]]

\* documents of a file exported elsewhere: two projects, or no projects key
ExternalDocs ==
    {ExportData(PutDoc(PutDoc(EmptyDoc, "demo",
                              ProjectData("demo", ThirdInstance, 0)),
                       "third", ProjectData("third", ThirdInstance, 0)), 0),
     [clwd_version |-> "1.0.0"]}

WithExternal(f, data) ==
    LET g == FsOpenW(f, EXTERNAL, {}) IN
    [g EXCEPT !.inode[g.dir[EXTERNAL]] = Serialize(data)]

apiUnchanged == <<servers, nextId, remote, cliVars, sp, backups, handed>>

\* what the call returned, and the document the store handed before it
Returned(op, name, status, out) ==
    [call EXCEPT !.op = op, !.n = call.n + 1, !.name = name,
                 !.status = status, !.before = StoreDoc, !.out = out,
                 !.inst = NoInstance, !.merge = FALSE, !.path = ""]

ApiAdd(names) ==
    /\ call.n < MaxCalls
    /\ \E n \in names, io \in {"ok", "oserror"} :
         LET r == add_project(fs, n, ApiInstance(n), wall, io) IN
         /\ fs' = r.fs
         /\ call' = [Returned("add", n, r.status, NoInstance)
                       EXCEPT !.inst = ApiInstance(n)]
    /\ UNCHANGED <<wall, apiUnchanged>>

ApiGet(names) ==
    /\ call.n < MaxCalls
    /\ \E n \in names :
         LET g == get_project(fs, n) IN
         call' = Returned("get", n, g.status,
                          IF g.status = "found" THEN g.data ELSE NoInstance)
    /\ UNCHANGED <<fs, wall, apiUnchanged>>

ApiGetInstance(names) ==
    /\ call.n < MaxCalls
    /\ \E n \in names :
         LET g == get_project_instance(fs, n) IN
         call' = Returned("get_instance", n, g.status,
                          IF g.status = "found" THEN g.data ELSE NoInstance)
    /\ UNCHANGED <<fs, wall, apiUnchanged>>

ApiUpdate(names) ==
    /\ call.n < MaxCalls
    /\ \E n \in names, u \in Updates, io \in {"ok", "oserror"} :
         LET r == update_project(fs, n, u, wall, io) IN
         /\ fs' = r.fs
         /\ call' = Returned("update", n, r.status, u)
    /\ UNCHANGED <<wall, apiUnchanged>>

ApiRemove(names) ==
    /\ call.n < MaxCalls
    /\ \E n \in names, io \in {"ok", "oserror"} :
         LET r == remove_project(fs, n, io) IN
         /\ fs' = r.fs
         /\ call' = Returned("remove", n, r.status, NoInstance)
    /\ UNCHANGED <<wall, apiUnchanged>>

ApiList ==
    /\ call.n < MaxCalls
    /\ LET r == list_project_details(fs) IN
       call' = Returned("list", "", r.status, r.out)
    /\ UNCHANGED <<fs, wall, apiUnchanged>>

ApiExport ==
    /\ call.n < MaxCalls
    /\ \E io \in {"ok", "oserror"} :
         LET r == export_projects(fs, EXPORT, wall, io) IN
         /\ fs' = r.fs
         /\ call' = [Returned("export", "", r.status, NoInstance)
                       EXCEPT !.path = EXPORT,
                              !.exported = IF r.status = "ok"
                                           THEN [made |-> TRUE, doc |-> StoreDoc]
                                           ELSE call.exported]
    /\ UNCHANGED <<wall, apiUnchanged>>

ApiImport ==
    /\ call.n < MaxCalls
    /\ \E path \in {EXPORT, EXTERNAL}, merge \in BOOLEAN,
          io \in {"ok", "oserror"} :
         LET r == import_projects(fs, path, merge, io) IN
         /\ fs' = r.fs
         /\ call' = [Returned("import", "", r.status, NoInstance)
                       EXCEPT !.path = path, !.merge = merge]
    /\ UNCHANGED <<wall, apiUnchanged>>

\* the scalar fields of an instance record
ScalarFields == {"id", "name", "ip", "provider", "status"}

\* keyword arguments for Instance(...) with the fields in e empty
InstanceFields(e) ==
    [id |-> IF "id" \in e THEN 0 ELSE 5,
     name |-> IF "name" \in e THEN NoInstance.name ELSE <<"demo", 0>>,
     ip |-> IF "ip" \in e THEN 0 ELSE 5,
     provider |-> IF "provider" \in e THEN "" ELSE "hetzner",
     status |-> IF "status" \in e THEN "" ELSE "running",
     created_at |-> 0,
     metadata |-> NoInstance.metadata]

\* Instance(**fields): the dataclass constructor followed by __post_init__
ApiConstruct ==
    /\ call.n < MaxCalls
    /\ \E e \in {{}} \cup {{x} : x \in ScalarFields} :
         LET i == InstanceFields(e) IN
         call' = [Returned("construct", "",
                           IF ValidInstance(i) THEN "ok" ELSE "ValueError",
                           IF ValidInstance(i) THEN i ELSE NoInstance)
                    EXCEPT !.inst = i]
    /\ UNCHANGED <<fs, wall, apiUnchanged>>

\* time passes between two calls
Tick ==
    /\ wall < MaxWall
    /\ wall' = wall + 1
    /\ UNCHANGED <<fs, call, apiUnchanged>>

InitApi ==
    /\ fs \in {WithExternal(f, x) : f \in {EmptyFs, EarlierFs},
                                     x \in ExternalDocs}
    /\ servers = {}
    /\ nextId = 1
    /\ remote = {}
    /\ wall = 1
    /\ InitCli
    /\ sp = [p \in Procs |-> NoProc]
    /\ call = NoCall
    /\ backups = NoBackups
    /\ handed = NoHanded

NextApi ==
    \/ ApiAdd(ApiNames)
    \/ ApiGet(ApiNames)
    \/ ApiGetInstance(ApiNames)
    \/ ApiUpdate(ApiNames)
    \/ ApiRemove(ApiNames)
    \/ ApiList
    \/ ApiExport
    \/ ApiImport
    \/ Tick

SpecApi == InitApi /\ [][NextApi]_vars

(***************************************************************************)
(* Properties of the store API                                             *)
(***************************************************************************)
\* the step is a call of the store API
Called == call'.n = call.n + 1

\* C12: add_project with a name whose trimmed form is a key of the (readable)
\* store fails with ProjectExistsError and changes no file: the document,
\* with the existing record's fields and timestamps, is what it was.
C12_AddExistingRejected ==
    [][(Called /\ call'.op = "add" /\ LoadJsonFile(fs, PROJECTS).ok
          /\ Strip(call'.name) \in DOMAIN StoreDoc) =>
         (call'.status = "ProjectExistsError" /\ fs' = fs)]_vars

C12_Witness ==
    /\ call.op = "add"
    /\ call.name = " other "
    /\ call.status = "ProjectExistsError"
    /\ "other" \in DOMAIN StoreDoc
    /\ StoreDoc["other"].last_accessed < wall
    /\ StoreDoc = call.before

\* C13: update_project and remove_project with a non-empty name whose trimmed
\* form is not a key of the (readable) store fail with ProjectNotFoundError
\* and change no file.
C13_MissingKeyRejected ==
    [][(Called /\ call'.op \in {"update", "remove"} /\ call'.name # ""
          /\ LoadJsonFile(fs, PROJECTS).ok
          /\ Strip(call'.name) \notin DOMAIN StoreDoc) =>
         (call'.status = "ProjectNotFoundError" /\ fs' = fs)]_vars

C13_Witness ==
    /\ call.op = "update"
    /\ call.name = " other "
    /\ call.status = "ProjectNotFoundError"
    /\ DOMAIN StoreDoc = {"demo"}
    /\ StoreDoc = call.before

SameName == Strip(call'.name) = Strip(call.name)

\* C14: a get_project / get_project_instance that follows a successful
\* add_project of the same name finds a record whose instance fields are those
\* of the instance added; one that follows a successful remove_project of the
\* name finds nothing.
C14_AddGetRemoveGet ==
    [][/\ (Called /\ call.op = "add" /\ call.status = "ok" /\ SameName
             /\ call'.op = "get") =>
            (call'.status = "found" /\ InstanceOf(call'.out) = call.inst)
       /\ (Called /\ call.op = "add" /\ call.status = "ok" /\ SameName
             /\ call'.op = "get_instance") =>
            (call'.status = "found" /\ call'.out = call.inst)
       /\ (Called /\ call.op = "remove" /\ call.status = "ok" /\ SameName
             /\ call'.op \in {"get", "get_instance"}) =>
            call'.status = "absent"
      ]_vars

C14_Witness ==
    /\ call.op = "get_instance"
    /\ call.name = " other "
    /\ call.status = "found"
    /\ call.out.id = 5
    /\ call.out.metadata.hardening_level = "full"
    /\ call.n = 2

\* C15: an import_projects(merge=False) of the file export_projects wrote,
\* into an empty store, leaves the store holding exactly the records the
\* store handed when it was exported.
C15_ExportImportRoundTrip ==
    (call.op = "import" /\ call.status = "ok" /\ ~call.merge
       /\ call.path = EXPORT /\ call.exported.made
       /\ call.before = EmptyDoc) =>
      (LoadJsonFile(fs, PROJECTS).ok /\ StoreDoc = call.exported.doc)

C15_Witness ==
    /\ call.op = "import"
    /\ call.status = "ok"
    /\ ~call.merge
    /\ call.path = EXPORT
    /\ call.before = EmptyDoc
    /\ call.exported.made
    /\ DOMAIN call.exported.doc = {"demo"}
    /\ StoreDoc = call.exported.doc

\* the "projects" member of the document in the file at path
ImportedSet(f, path) ==
    LET d == Parse(FsContent(f, path)) IN
    IF "projects" \in DOMAIN d THEN d.projects ELSE EmptyDoc

\* C16: a successful import_projects(merge=True) keeps the records of the
\* keys that are not in the imported set, replaces the record of every key
\* that is in both by the imported one and adds the imported keys that were
\* absent; a successful import_projects(merge=False) leaves exactly the
\* imported set.
C16_ImportMergeAndReplace ==
    [][(Called /\ call'.op = "import" /\ call'.status = "ok") =>
         LET imp == ImportedSet(fs, call'.path)
             old == StoreDoc
             new == LoadJsonFile(fs', PROJECTS)
         IN /\ new.ok
            /\ IF call'.merge
               THEN /\ DOMAIN new.doc = DOMAIN old \cup DOMAIN imp
                    /\ \A k \in DOMAIN old \ DOMAIN imp : new.doc[k] = old[k]
                    /\ \A k \in DOMAIN imp : new.doc[k] = imp[k]
               ELSE new.doc = imp
      ]_vars

C16_Witness ==
    /\ call.op = "import"
    /\ call.status = "ok"
    /\ call.merge
    /\ call.path = EXTERNAL
    /\ DOMAIN call.before = {"demo", "other"}
    /\ DOMAIN StoreDoc = {"demo", "other", "third"}
    /\ StoreDoc["demo"] # call.before["demo"]
    /\ StoreDoc["other"] = call.before["other"]

\* C17: list_project_details returns exactly one summary per record of the
\* store, and when the records' last_accessed values are distinct the
\* summaries are in strictly descending order of last_accessed.
C17_ListSortedDescending ==
    (call.op = "list" /\ call.status = "ok") =>
      LET out == call.out
          d == StoreDoc
      IN /\ Len(out) = Cardinality(DOMAIN d)
         /\ {out[i].project_name : i \in 1..Len(out)} = DOMAIN d
         /\ \A i \in 1..Len(out) :
              out[i] = Summary(out[i].project_name, d[out[i].project_name])
         /\ (\A j, k \in DOMAIN d :
               j # k => d[j].last_accessed # d[k].last_accessed) =>
              \A i, j \in 1..Len(out) :
                i < j => out[i].last_accessed > out[j].last_accessed

C17_Witness ==
    /\ call.op = "list"
    /\ call.status = "ok"
    /\ Len(call.out) = 2
    /\ call.out[1].project_name = "other"
    /\ call.out[2].project_name = "demo"
    /\ call.out[1].last_accessed > call.out[2].last_accessed

(***************************************************************************)
(* Properties of destruction and of the failures of provisioning           *)
(***************************************************************************)
\* C18: the destroy_instance step of a destroy whose stored instance id is
\* not a server of the provider ends the invocation with a failure, which is
\* the InstanceNotFoundError unless the provider API call itself failed; no
\* file is written and the project record is still in the store.
C18_DestroyMissingInstanceKeepsRecord ==
    [][(pc = "destroy_instance" /\ instance.id \notin servers) =>
         /\ pc' = "exited"
         /\ exit_code' = 1
         /\ message' \in {"Failed to destroy instance: Instance not found",
                          "Failed to destroy instance: Failed to destroy instance"}
         /\ fs' = fs
         /\ RecordStored'
         /\ ~destroyOk'
      ]_vars

C18_Witness ==
    /\ args.cmd = "destroy"
    /\ pc = "exited"
    /\ exit_code = 1
    /\ message = "Failed to destroy instance: Instance not found"
    /\ instance.id \notin servers
    /\ RecordStored

\* C19 (as claimed): once an interrupt has been delivered during one of the
\* polling loops, the next thing the invocation does is exit, reporting
\* "Operation cancelled by user".
C19_Original ==
    [][(must_cancel /\ pc # "exited") =>
         (pc' = "exited" /\ exit_code' = 1
            /\ message' = "Operation cancelled by user")]_vars

\* the cause of a failed provisioning, from what happened
Cause ==
    CASE failed = "prepare_auth" -> "authentication-missing"
      [] failed = "create_instance" /\ lastProbe = "quota" -> "quota-exceeded"
      [] failed = "create_instance" /\ lastProbe = "api_error" ->
           "provider-creation-failure"
      [] failed = "wait_for_ssh" -> "ssh-unreachable-timeout"
      [] failed = "wait_for_setup_complete" -> "setup-incomplete-timeout"
      [] OTHER -> "other"

FiveCauses == {"authentication-missing", "quota-exceeded",
               "provider-creation-failure", "ssh-unreachable-timeout",
               "setup-incomplete-timeout"}

\* the cause a caller reads off the reported message
Classify(msg) ==
    CASE msg \in {"No Claude Code credentials found in Keychain",
                  "No Claude Code session file found",
                  "Could not prepare authentication"} ->
           "authentication-missing"
      [] msg = "Provider error: Hetzner quota exceeded" -> "quota-exceeded"
      [] msg = "Provider error: Failed to create Hetzner instance" ->
           "provider-creation-failure"
      [] msg = "Provider error: Instance created but SSH is not available after 5 minutes" ->
           "ssh-unreachable-timeout"
      [] msg = "Provider error: Instance setup did not complete after 5 minutes" ->
           "setup-incomplete-timeout"
      [] OTHER -> "other"

\* C20: a provisioning that failed for one of the five causes exits with
\* status 1 and a message from which the cause can be read off: the messages
\* of two different causes are never the same, and no other exit of the
\* command carries a message of the five.
C20_FailureCausesDistinct ==
    (args.cmd = "init" /\ pc = "exited") =>
      /\ Cause \in FiveCauses => (exit_code = 1 /\ Classify(message) = Cause)
      /\ Classify(message) \in FiveCauses => Cause = Classify(message)

C20_Witness ==
    /\ args.cmd = "init"
    /\ pc = "exited"
    /\ Cause = "quota-exceeded"
    /\ message = "Provider error: Hetzner quota exceeded"
    /\ createCalls = 1

\* C21 (as claimed): an invocation that ended with exit status zero has
\* created or destroyed its project, was declined by the user at the
\* confirmation or the selection, or found no project to select.
C21_Original ==
    (pc = "exited" /\ exit_code = 0) =>
      message \in {"created successfully", "destroyed successfully",
                   "Operation cancelled.", "quit", "No projects found."}

(***************************************************************************)
(* Specification of names and records: the calls that take a project name, *)
(* with padded and blank names, and the construction of instance records   *)
(***************************************************************************)
\* save_projects(projects) with a document of the caller's
ApiSave ==
    /\ call.n < MaxCalls
    /\ \E d \in {EmptyDoc,
                  PutDoc(EmptyDoc, "demo",
                         ProjectData("demo", ApiInstance("demo"), wall))},
          io \in {"ok", "oserror"} :
         /\ fs' = IF io = "ok" THEN SaveJsonFile(fs, d)
                  ELSE SaveJsonFileFails(fs, d)
         /\ call' = Returned("save", "",
                             IF io = "ok" THEN "ok" ELSE "ConfigError", d)
    /\ UNCHANGED <<wall, apiUnchanged>>

\* load_projects()
ApiLoad ==
    /\ call.n < MaxCalls
    /\ LET l == LoadJsonFile(fs, PROJECTS) IN
       call' = Returned("load", "", IF l.ok THEN "ok" ELSE l.error, l.doc)
    /\ UNCHANGED <<fs, wall, apiUnchanged>>

\* a store file that is truncated or is not valid UTF-8, beside the backup
\* of the write before it
InitUnreadable ==
    /\ fs \in {[g EXCEPT !.inode[g.dir[PROJECTS]] = c] :
                g \in {SaveJsonFile(EarlierFs,
                                    LoadJsonFile(EarlierFs, PROJECTS).doc)},
                c \in {SubSeq(FsContent(EarlierFs, PROJECTS), 1, 1),
                       <<InvalidUtf8>>}}
    /\ servers = {}
    /\ nextId = 1
    /\ remote = {}
    /\ wall = 1
    /\ InitCli
    /\ sp = [p \in Procs |-> NoProc]
    /\ call = NoCall
    /\ backups = NoBackups
    /\ handed = NoHanded

NextKeys ==
    \/ ApiAdd(KeyNames)
    \/ ApiGet(KeyNames)
    \/ ApiGetInstance(KeyNames)
    \/ ApiUpdate(KeyNames)
    \/ ApiRemove(KeyNames)
    \/ ApiConstruct
    \/ Tick

SpecKeys == InitApi /\ [][NextKeys]_vars

NextUnreadable ==
    \/ NextKeys
    \/ ApiSave
    \/ ApiLoad
    \/ ApiList

\* the calls of the store, save_projects among them, on a store file that
\* cannot be read
SpecUnreadable == InitUnreadable /\ [][NextUnreadable]_vars

(***************************************************************************)
(* Specification of the backup files: saves that leave a backup and calls  *)
(* of cleanup_backups                                                      *)
(***************************************************************************)
\* the backups _save_json_file writes for projects.json and config.json
SavedBackups == {"projects.json.backup", "config.json.backup"}

\* a file matching *.backup that a user left in the directory
MANUAL == "manual.backup"

\* backup_files[:-max_backups] of the list sorted by st_mtime, oldest first:
\* -0 is 0, so the slice is empty for max_backups = 0; files of equal mtime
\* are in the order glob listed them
OldestSlices(listing, max_backups) ==
    IF max_backups = 0 THEN {{}}
    ELSE {r \in SUBSET DOMAIN listing :
            /\ Cardinality(r) = Cardinality(DOMAIN listing) - max_backups
            /\ \A x \in r, y \in DOMAIN listing \ r : listing[x] <= listing[y]}

\* cleanup_backups(max_backups); unlink raises OSError for the files in stuck
cleanup_backups(listing, max_backups, slice, stuck) ==
    IF Cardinality(DOMAIN listing) <= max_backups THEN listing
    ELSE [n \in DOMAIN listing \ (slice \ stuck) |-> listing[n]]

\* _save_json_file of projects.json or config.json with the file present:
\* copy2 gives the backup the content and the mtime of the file saved before
SaveBackup ==
    /\ \E n \in SavedBackups, t \in 1..wall :
         backups' = [x \in DOMAIN backups \cup {n} |->
                       IF x = n THEN t ELSE backups[x]]
    /\ UNCHANGED <<fs, call, servers, nextId, remote, wall, cliVars, sp, handed>>

CleanupBackups ==
    /\ call.n < MaxCalls
    /\ \E k \in 0..MaxKeep, stuck \in SUBSET DOMAIN backups :
         \E slice \in OldestSlices(backups, k) :
           /\ backups' = cleanup_backups(backups, k, slice, stuck)
           /\ call' = [Returned("cleanup", "", "ok", "")
                         EXCEPT !.max_backups = k]
    /\ UNCHANGED <<fs, servers, nextId, remote, wall, cliVars, sp, handed>>

InitBackups ==
    /\ fs = EmptyFs
    /\ servers = {}
    /\ nextId = 1
    /\ remote = {}
    /\ wall = 1
    /\ InitCli
    /\ sp = [p \in Procs |-> NoProc]
    /\ call = NoCall
    /\ backups \in {NoBackups, [n \in {MANUAL} |-> 1]}
    /\ handed = NoHanded

NextBackups ==
    \/ SaveBackup
    \/ CleanupBackups
    \/ Tick

SpecBackups == InitBackups /\ [][NextBackups]_vars

(***************************************************************************)
(* Specification of the session manager: calls of get_session,             *)
(* remove_session and clear_all_sessions in any order                      *)
(***************************************************************************)
\* users and addresses the calls are made with: the ip is whatever the
\* stored record holds, the user whatever --user was given
SessionUsers == {"root", "root@jump"}
PlainIps == {"10.0.0.1"}
SessionIps == PlainIps \cup {"jump@10.0.0.1"}

sessionUnchanged ==
    <<fs, cloudVars, pc, args, cloud_provider, credentials_json, session_json,
      instance, elapsed, attempts, sshUpAt, lastProbe, exit_code, message,
      steps, succeeded, failed, apiCalls, createCalls, user_data, destroyOk,
      attempted, runs, must_cancel, sp, backups>>

SameSessionKey(q, ip, user) == SessionKey(q[2], q[1]) = SessionKey(user, ip)

GetSession ==
    /\ call.n < MaxCalls
    /\ \E ip \in SessionIps, user \in SessionUsers :
         LET r == get_session(sessions, ip, user, Fresh(sessions, handed)) IN
         /\ sessions' = r.cache
         /\ handed' = Hand(handed, ip, user, r.session)
         /\ call' = [Returned("get_session", user, "ok", r.session)
                       EXCEPT !.ip = ip]
    /\ UNCHANGED sessionUnchanged

RemoveSession ==
    /\ call.n < MaxCalls
    /\ \E ip \in SessionIps, user \in SessionUsers :
         /\ sessions' = remove_session(sessions, ip, user)
         /\ handed' = Invalidate(handed, {<<ip, user>>},
                               {q \in DOMAIN handed : SameSessionKey(q, ip, user)})
         /\ call' = [Returned("remove_session", user, "ok", "")
                       EXCEPT !.ip = ip]
    /\ UNCHANGED sessionUnchanged

ClearAllSessions ==
    /\ call.n < MaxCalls
    /\ sessions' = clear_all_sessions
    /\ handed' = Invalidate(handed, DOMAIN handed, DOMAIN handed)
    /\ call' = [Returned("clear_all_sessions", "", "ok", "") EXCEPT !.ip = ""]
    /\ UNCHANGED sessionUnchanged

\* a process that has just started, with an empty configuration directory
InitFresh ==
    /\ fs = EmptyFs
    /\ servers = {}
    /\ nextId = 1
    /\ remote = {}
    /\ wall = 1
    /\ InitCli
    /\ sp = [p \in Procs |-> NoProc]
    /\ call = NoCall
    /\ backups = NoBackups
    /\ handed = NoHanded

NextSessions ==
    \/ GetSession
    \/ RemoveSession
    \/ ClearAllSessions

SpecSessions == InitFresh /\ [][NextSessions]_vars

(***************************************************************************)
(* Specification of the SSH operations: sessions are taken from the        *)
(* manager and execute_command and test_connection are called on them      *)
(***************************************************************************)
\* a stream that was not captured
None == "None"

\* what subprocess.run(ssh_cmd, capture_output=..., text=True, timeout=...)
\* does: the ssh process exits (with the exit status of the remote command,
\* or 255 when ssh could not connect), the timeout expires, another
\* SubprocessError is raised, or the ssh program cannot be started (OSError)
Exited(returncode, stdout, stderr, capture_output) ==
    [how |-> "exited", returncode |-> returncode,
     stdout |-> IF capture_output THEN stdout ELSE None,
     stderr |-> IF capture_output THEN stderr ELSE None]

SubprocessRun(capture_output) ==
    {Exited(0, "done", "", capture_output),
     Exited(1, "", "failed", capture_output),
     Exited(255, "", "Connection refused", capture_output),
     [how |-> "TimeoutExpired"], [how |-> "SubprocessError"],
     [how |-> "FileNotFoundError"]}

\* result.stdout or ""
OrEmpty(x) == IF x = None THEN "" ELSE x

\* except subprocess.TimeoutExpired / except subprocess.SubprocessError:
\* OSError is not a SubprocessError
Caught(how) == how \in {"TimeoutExpired", "SubprocessError"}

\* execute_command: the triple, SSHError, or the exception not caught
execute_command(ran) ==
    IF ran.how = "exited"
    THEN [status |-> "returned",
          out |-> <<ran.returncode, OrEmpty(ran.stdout), OrEmpty(ran.stderr)>>]
    ELSE IF Caught(ran.how) THEN [status |-> "SSHError", out |-> ""]
    ELSE [status |-> ran.how, out |-> ""]

\* test_connection: returncode == 0, False for the exceptions caught
test_connection(ran) ==
    IF ran.how = "exited"
    THEN [status |-> "returned", out |-> (ran.returncode = 0)]
    ELSE IF Caught(ran.how) THEN [status |-> "returned", out |-> FALSE]
    ELSE [status |-> ran.how, out |-> ""]

ExecuteCommand ==
    /\ call.n < MaxCalls
    /\ \E k \in DOMAIN sessions, capture_output \in BOOLEAN :
         \E ran \in SubprocessRun(capture_output) :
           LET r == execute_command(ran) IN
           call' = [Returned("execute_command", sessions[k].user, r.status,
                             r.out)
                      EXCEPT !.ip = sessions[k].ip, !.ran = ran]
    /\ UNCHANGED <<sessions, handed, sessionUnchanged>>

TestConnection ==
    /\ call.n < MaxCalls
    /\ \E k \in DOMAIN sessions :
         \E ran \in SubprocessRun(TRUE) :
           LET r == test_connection(ran) IN
           call' = [Returned("test_connection", sessions[k].user, r.status,
                             r.out)
                      EXCEPT !.ip = sessions[k].ip, !.ran = ran]
    /\ UNCHANGED <<sessions, handed, sessionUnchanged>>

NextSsh ==
    \/ GetSession
    \/ ExecuteCommand
    \/ TestConnection

SpecSsh == InitFresh /\ [][NextSsh]_vars

(***************************************************************************)
(* Specification of instance creation by invocations that run at the same  *)
(* time: each process makes one servers.create request                     *)
(***************************************************************************)
\* create_instance of process p up to the response of servers.create: the
\* name is generated from the clock, the provider accepts or refuses
CreateRequest(p) ==
    /\ sp[p].pc = "off"
    /\ nextId <= MaxServers
    /\ \E n \in AddNames, accepted \in BOOLEAN :
         LET server_name == ServerName(n, wall) IN
         IF accepted
         THEN /\ servers' = servers \cup {nextId}
              /\ nextId' = nextId + 1
              /\ sp' = [sp EXCEPT ![p] =
                          [NoProc EXCEPT
                             !.pc = "created", !.name = n,
                             !.server_name = server_name,
                             !.inst = [ProcInstance(p, n) EXCEPT
                                         !.id = nextId, !.ip = nextId,
                                         !.name = server_name]]]
         ELSE /\ sp' = [sp EXCEPT ![p] =
                          [NoProc EXCEPT !.pc = "refused", !.name = n,
                                         !.server_name = server_name,
                                         !.result = "ProviderError"]]
              /\ UNCHANGED <<servers, nextId>>
    /\ UNCHANGED <<fs, remote, wall, cliVars, call, backups, handed>>

\* the process ends and another invocation is started in its place
Restart(p) ==
    /\ sp[p].pc # "off"
    /\ sp' = [sp EXCEPT ![p] = NoProc]
    /\ UNCHANGED <<fs, cloudVars, cliVars, call, backups, handed>>

NextCreate ==
    \/ \E p \in Procs : CreateRequest(p)
    \/ \E p \in Procs : Restart(p)
    \/ Tick

SpecCreate == InitFresh /\ [][NextCreate]_vars

(***************************************************************************)
(* Properties of instance records and of the keys of the store             *)
(***************************************************************************)
NonEmpty(i, field) ==
    CASE field = "id" -> i.id # 0
      [] field = "name" -> i.name # NoInstance.name
      [] field = "ip" -> i.ip # 0
      [] field = "provider" -> i.provider # ""
      [] field = "status" -> i.status # ""

\* an instance record came into existence by this call
Constructed ==
    \/ call.op = "construct" /\ call.status = "ok"
    \/ call.op = "get_instance" /\ call.status = "found"

\* C22 (as claimed): a construction with an empty id, name, ip, provider or
\* status fails, and every instance record constructed or read back from the
\* store has all five non-empty.
C22_Original ==
    /\ call.op = "construct" =>
         (call.status = "ok" <=>
            \A f \in ScalarFields : NonEmpty(call.inst, f))
    /\ Constructed => \A f \in ScalarFields : NonEmpty(call.out, f)

\* C22 (amended): a construction fails exactly when id, name, ip or provider
\* is empty, status is not looked at, and every instance record constructed
\* or read back from the store has id, name, ip and provider non-empty.
C22_FourFieldsValidated ==
    /\ call.op = "construct" =>
         /\ call.status = "ok" <=>
              \A f \in ScalarFields \ {"status"} : NonEmpty(call.inst, f)
         /\ call.status = "ok" => call.out = call.inst
         /\ call.status # "ok" => call.status = "ValueError"
    /\ Constructed =>
         \A f \in ScalarFields \ {"status"} : NonEmpty(call.out, f)

C22_Witness ==
    /\ call.op = "construct"
    /\ call.status = "ok"
    /\ call.out.status = ""
    /\ call.out.id = 5

\* the names with surrounding whitespace
Padded == {" demo ", " other ", "  "}

Mutating == {"add", "update", "remove"}

\* C23: after a call of add, get, update or remove every key of the store
\* is non-empty and without surrounding whitespace; the call addresses the
\* record whose key is the trimmed name; and a mutating call with an empty
\* or whitespace-only name is rejected and changes no file.
C23_KeysTrimmed ==
    [][(Called /\ call'.op \in Mutating \cup {"get"}) =>
         LET key == Strip(call'.name)
             op == call'.op
             ok == call'.status = "ok"
         IN /\ LoadJsonFile(fs', PROJECTS).ok
            /\ \A k \in DOMAIN StoreDoc' : k # "" /\ k \notin Padded
            /\ op = "get" =>
                 /\ fs' = fs
                 /\ call'.status = "found" =>
                      key \in DOMAIN StoreDoc /\ call'.out = StoreDoc[key]
                 /\ call'.status = "absent" => key \notin DOMAIN StoreDoc
            /\ op = "add" /\ ok =>
                 /\ key \notin DOMAIN StoreDoc
                 /\ DOMAIN StoreDoc' = DOMAIN StoreDoc \cup {key}
            /\ op = "update" /\ ok =>
                 /\ key \in DOMAIN StoreDoc
                 /\ DOMAIN StoreDoc' = DOMAIN StoreDoc
                 /\ \A k \in DOMAIN StoreDoc \ {key} :
                      StoreDoc'[k] = StoreDoc[k]
            /\ op = "remove" /\ ok =>
                 /\ key \in DOMAIN StoreDoc
                 /\ StoreDoc' = DelDoc(StoreDoc, key)
            /\ op \in Mutating /\ ~ok => StoreDoc' = StoreDoc
            /\ op \in Mutating /\ call'.name \in {"", "  "} =>
                 /\ call'.status \in {"ValueError", "ProjectNotFoundError"}
                 /\ fs' = fs]_vars

\* a padded name removed the record stored under the trimmed name
C23_Witness ==
    /\ call.op = "remove"
    /\ call.name = " demo "
    /\ call.status = "ok"
    /\ "demo" \in DOMAIN call.before
    /\ "demo" \notin DOMAIN StoreDoc
    /\ "other" \in DOMAIN StoreDoc
    /\ "other" \in DOMAIN call.before

\* a whitespace-only name was rejected by update
C23_WitnessBlank ==
    /\ call.op = "update"
    /\ call.name = "  "
    /\ call.status = "ProjectNotFoundError"
    /\ StoreDoc # EmptyDoc

\* C24: a successful update_project(name, updates) leaves the record with
\* last_accessed equal to the time of the call, also when the updates hold a
\* last_accessed of their own, with every other supplied field at its
\* supplied value and every other field as it was; the other records and the
\* set of keys are unchanged.
C24_UpdateFrame ==
    [][(Called /\ call'.op = "update" /\ call'.status = "ok") =>
         LET key == Strip(call'.name)
             updates == call'.out
             old == StoreDoc[key]
             new == StoreDoc'[key]
         IN /\ DOMAIN StoreDoc' = DOMAIN StoreDoc
            /\ \A k \in DOMAIN StoreDoc \ {key} : StoreDoc'[k] = StoreDoc[k]
            /\ DOMAIN new = DOMAIN old \cup DOMAIN updates
            /\ new.last_accessed = wall
            /\ \A field \in DOMAIN new \ {"last_accessed"} :
                 new[field] = IF field \in DOMAIN updates
                              THEN updates[field] ELSE old[field]]_vars

\* an update that supplied its own last_accessed, with another record in
\* the store
C24_Witness ==
    /\ call.op = "update"
    /\ call.status = "ok"
    /\ call.out = [last_accessed |-> 0]
    /\ call.name = " demo "
    /\ StoreDoc["demo"].last_accessed = wall
    /\ call.before["demo"].last_accessed < wall
    /\ "other" \in DOMAIN StoreDoc

\* C25 (as claimed): after cleanup_backups(max_backups = k), for every
\* k >= 0, at most k backup files are left, and every file removed is older
\* than every file kept.
C25_Original ==
    [][(Called /\ call'.op = "cleanup") =>
         /\ Cardinality(DOMAIN backups') <= call'.max_backups
         /\ \A x \in DOMAIN backups \ DOMAIN backups', y \in DOMAIN backups' :
              backups[x] < backups[y]]_vars

\* C26: when provisioning with skip_auth has ended successfully, the store
\* holds under the trimmed project name a record whose provider is
\* "hetzner", whose ip is the non-empty ip of the created instance, whose
\* status is the status the provider returned for it, and whose metadata
\* hardening_level is the hardening level asked for.
C26_RecordAfterSkipAuth ==
    (pc = "exited" /\ args.cmd = "init" /\ args.skip_auth
       /\ message = "created successfully") =>
      LET g == get_project(fs, args.name) IN
      /\ g.status = "found"
      /\ Strip(args.name) \in DOMAIN StoreDoc
      /\ g.data = StoreDoc[Strip(args.name)]
      /\ g.data.provider = "hetzner"
      /\ g.data.ip # 0
      /\ g.data.ip = instance.ip
      /\ instance.id \in servers
      /\ g.data.status = instance.status
      /\ g.data.status \in ServerStatuses
      /\ g.data.metadata.hardening_level = args.hardening

\* the scenario: "demo", size small, hardening none, skip_auth
C26_Witness ==
    /\ pc = "exited"
    /\ message = "created successfully"
    /\ args.cmd = "init"
    /\ args.skip_auth
    /\ args.name = "demo"
    /\ args.size = "small"
    /\ args.hardening = "none"
    /\ StoreDoc["demo"].status = "initializing"
    /\ StoreDoc["demo"].metadata.hardening_level = "none"

\* the pair the call was made for
CallPair == <<call'.ip, call'.name>>

C27_Shared ==
    \E p \in DOMAIN handed, q \in DOMAIN handed :
      p # q /\ handed[p].session = handed[q].session

\* the run did not bring back an exit status of the remote command: the
\* call timed out or the process could not be run
TransportFailure == call.ran.how # "exited"

\* C28 (as claimed): execute_command returns (exit code, stdout, stderr)
\* without raising when the command ran and exited non-zero, and raises
\* SSHError when the call timed out or the process could not be run;
\* test_connection returns False in both cases and never raises.
C28_Original ==
    /\ call.op = "execute_command" =>
         IF TransportFailure
         THEN call.status = "SSHError"
         ELSE /\ call.status = "returned"
              /\ call.out[1] = call.ran.returncode
    /\ call.op = "test_connection" =>
         /\ call.status = "returned"
         /\ call.out = (~TransportFailure /\ call.ran.returncode = 0)

\* C29 (as claimed): any two creation requests, also two for the same
\* project name, are given different instance names.
C29_Original ==
    \A p \in Procs, q \in Procs :
      (p # q /\ sp[p].pc # "off" /\ sp[q].pc # "off") =>
        sp[p].server_name # sp[q].server_name

TransferPaths == {CREDENTIALS_PATH, SESSION_PATH, SETTINGS_PATH}

CopySteps == {"transfer_credentials", "transfer_session", "transfer_settings"}

\* C30 (as claimed): when a transfer has been attempted, whatever became of
\* it, the remaining transfers are attempted too: provisioning ends with all
\* three attempted.
C30_Original ==
    (args.cmd = "init" /\ pc = "exited" /\ attempted # {}) =>
      attempted = TransferPaths

\* C30 (amended): a copy that fails by returning False is followed by the
\* attempt of the next transfer (or, for the last one, by the success
\* message); a copy that fails with an exception ends the transfer step
\* with a warning, the remaining transfers are not attempted, and
\* provisioning still ends successfully.
C30_FalseContinuesRaiseSkips ==
    [][(pc \in CopySteps) =>
         /\ lastProbe' \in {"copied", "false", "raises"}
         /\ lastProbe' = "raises" =>
              /\ pc' = "exited" /\ exit_code' = 0
              /\ Cardinality(attempted') = Cardinality(attempted) + 1
              /\ remote' = remote
         /\ (lastProbe' = "false" /\ pc = "transfer_credentials") =>
              pc' = "transfer_session" /\ remote' = remote
         /\ (lastProbe' = "false" /\ pc = "transfer_session") =>
              pc' = "transfer_settings" /\ remote' = remote
         /\ (lastProbe' = "false" /\ pc = "transfer_settings") =>
              pc' = "exited" /\ exit_code' = 0 /\ remote' = remote
         /\ pc = "transfer_credentials" =>
              attempted' = attempted \cup {CREDENTIALS_PATH}
         /\ pc = "transfer_session" =>
              attempted' = attempted \cup {SESSION_PATH}
         /\ pc = "transfer_settings" =>
              attempted' = TransferPaths]_vars

\* the first copy returned False and the two others were made
C30_Witness ==
    /\ args.cmd = "init"
    /\ pc = "exited"
    /\ exit_code = 0
    /\ attempted = TransferPaths
    /\ {r.path : r \in remote} = {SESSION_PATH, SETTINGS_PATH}

(***************************************************************************)
(* The order of the credential transfer                                    *)
(***************************************************************************)
CopyStates == {"transfer_credentials", "transfer_session", "transfer_settings"}

\* the session _init_async holds for the transfer
TransferPair == <<IpText(instance.ip), "claude-user">>

\* the sessions that were in the cache when it was cleared
Invalidated == {handed[q].session : q \in {x \in DOMAIN handed : handed[x].evicted}}

\* C31: once credentials were prepared and the setup completed, the transfer
\* starts by clearing the session cache (every session cached until then is
\* gone from it), the settle delay follows the clearing, the connection test
\* follows the delay and is made on a session created after the clearing, the
\* transfer goes on to the remote commands only after a test that succeeded,
\* and every file is copied while the session in hand is that new session,
\* never one the clearing removed.
C31_InvalidateSettleVerifyCopy ==
    [][args.cmd = "init" =>
         /\ ("wait_for_setup_complete" \in succeeded'
               /\ "wait_for_setup_complete" \notin succeeded
               /\ "prepare_auth" \in succeeded) => pc' = "credential_transfer"
         /\ pc = "credential_transfer" =>
              /\ pc' = "transfer_settle"
              /\ sessions' = NoSessions
              /\ DOMAIN handed # {}
              /\ \A q \in DOMAIN handed' : handed'[q].evicted
              /\ remote' = remote
         /\ (pc' = "transfer_settle" /\ pc # pc') => pc = "credential_transfer"
         /\ (pc' = "transfer_connect" /\ pc # pc') => pc = "transfer_settle"
         /\ pc = "transfer_settle" =>
              /\ UNCHANGED <<sessions, handed, remote>>
              /\ pc' \in {"transfer_connect", "exited"}
         /\ pc = "transfer_connect" =>
              /\ TransferPair \in DOMAIN handed'
              /\ ~handed'[TransferPair].evicted
              /\ handed'[TransferPair].session \notin Invalidated
              /\ handed'[TransferPair].session
                   \notin {handed[q].session : q \in DOMAIN handed}
              /\ sessions'[SessionKey("claude-user", IpText(instance.ip))]
                   = handed'[TransferPair].session
              /\ remote' = remote
              /\ (pc' # "exited") =>
                   (pc' = "transfer_mkdir" /\ lastProbe' = "connected")
         /\ (pc' = "transfer_mkdir" /\ pc # pc') =>
              (pc = "transfer_connect" /\ lastProbe' = "connected")
         /\ (pc' \in CopyStates /\ pc # pc') =>
              pc \in {"transfer_mkdir"} \cup CopyStates
         /\ remote' # remote =>
              /\ pc \in CopyStates
              /\ TransferPair \in DOMAIN handed
              /\ ~handed[TransferPair].evicted
              /\ handed[TransferPair].session \notin Invalidated
              /\ handed' = handed]_vars

\* a run that copied all three files after the root session had been cleared
\* from the cache
C31_Witness ==
    /\ args.cmd = "init"
    /\ pc = "exited"
    /\ exit_code = 0
    /\ Cardinality({r.path : r \in remote}) = 3
    /\ handed[<<IpText(instance.ip), "root">>].evicted
    /\ ~handed[TransferPair].evicted

\* the connection test failed and the run ended with the warning, no file
\* copied
C31_WitnessRefused ==
    /\ args.cmd = "init"
    /\ pc = "exited"
    /\ exit_code = 0
    /\ lastProbe = "refused"
    /\ TransferPair \in DOMAIN handed
    /\ remote = {}

(***************************************************************************)
(* The store during provisioning                                           *)
(***************************************************************************)
EarlyFailures ==
    {"resolve_provider", "prepare_auth", "create_instance", "wait_for_ssh"}

\* the store holds a record of the instance of this provisioning
InstanceRecorded ==
    /\ LoadJsonFile(fs, PROJECTS).ok
    /\ \E k \in DOMAIN StoreDoc : InstanceOf(StoreDoc[k]).id = instance.id

\* C32: provisioning changes the store only in its add_project step, reached
\* after instance creation and the reachability polling both succeeded; a
\* provisioning that failed at provider resolution, credential preparation,
\* instance creation or the reachability timeout never started the write and
\* the store is as the invocation found it; after the reachability timeout
\* the created instance still exists at the provider and the store has no
\* record of it.
C32_RecordOnlyAfterReachable ==
    [][args'.cmd = "init" =>
         /\ fs' # fs =>
              /\ pc = "add_project"
              /\ {"create_instance", "wait_for_ssh"} \subseteq succeeded
              /\ instance.id \in servers
         /\ failed' \in EarlyFailures =>
              /\ fs' = fs
              /\ pc' = "exited" /\ exit_code' = 1
              /\ \A i \in 1..Len(steps') : steps'[i] # "add_project"
              /\ fs' \in {EmptyFs, EarlierFs}
         /\ failed' = "wait_for_ssh" =>
              /\ instance' # NoInstance
              /\ instance'.id \in servers'
              /\ ~InstanceRecorded'
              /\ get_project(fs', args'.name).status = "absent"]_vars

\* the reachability polling timed out on an empty store: the instance exists
\* and the store was never written
C32_Witness ==
    /\ args.cmd = "init"
    /\ failed = "wait_for_ssh"
    /\ pc = "exited"
    /\ instance.id \in servers
    /\ fs = EmptyFs

\* the creation request was refused
C32_WitnessCreate ==
    /\ args.cmd = "init"
    /\ failed = "create_instance"
    /\ createCalls = 1
    /\ servers = {}
    /\ fs = EmptyFs

(***************************************************************************)
(* The backup of a store write                                             *)
(***************************************************************************)
\* the call just returned wrote the store file
StoreWritten(c) == c.op \in {"add", "update", "remove", "save"} /\ c.status = "ok"

\* C33: after a write of the store that found the store file present, the
\* backup file has the content the store file had before the write, and the
\* store file holds the document the write was given: the caller's document
\* for save_projects, the document before plus the new record for
\* add_project, minus the removed record for remove_project, with the one
\* record changed for update_project.
C33_BackupHoldsPrevious ==
    [][(StoreWritten(call') /\ call'.n # call.n /\ FsExists(fs, PROJECTS)) =>
         /\ FsExists(fs', BACKUP)
         /\ FsContent(fs', BACKUP) = FsContent(fs, PROJECTS)
         /\ LoadJsonFile(fs', BACKUP) = LoadJsonFile(fs, PROJECTS)
         /\ LoadJsonFile(fs', PROJECTS).ok
         /\ ~FsExists(fs', TMP)
         /\ call'.op = "save" => StoreDoc' = call'.out
         /\ call'.op = "add" =>
              StoreDoc' = PutDoc(StoreDoc, Strip(call'.name),
                                 ProjectData(Strip(call'.name), call'.inst, wall))
         /\ call'.op = "remove" => StoreDoc' = DelDoc(StoreDoc, Strip(call'.name))
         /\ call'.op = "update" =>
              /\ DOMAIN StoreDoc' = DOMAIN StoreDoc
              /\ StoreDoc'[Strip(call'.name)].last_accessed = wall
              /\ \A k \in DOMAIN StoreDoc \ {Strip(call'.name)} :
                   StoreDoc'[k] = StoreDoc[k]]_vars

\* a second write: the backup holds the document of the first, which differs
\* from the one now stored
C33_Witness ==
    /\ StoreWritten(call)
    /\ call.before # EmptyDoc
    /\ FsExists(fs, BACKUP)
    /\ LoadJsonFile(fs, BACKUP).doc = call.before
    /\ StoreDoc # call.before

(***************************************************************************)
(* The lookup and the confirmation of destroy                              *)
(***************************************************************************)
DestroySteps == {"destroy_provider", "destroy_instance", "remove_project"}

C34_WitnessNotFound ==
    /\ args.cmd = "destroy"
    /\ args.name # ""
    /\ message = "Project not found"
    /\ exit_code = 1
    /\ apiCalls = 0

\* the prompt was accepted and the provider called
C34_WitnessAccepted ==
    /\ args.cmd = "destroy"
    /\ ~args.force
    /\ lastProbe = "y"
    /\ destroyOk

(***************************************************************************)
(* init for a project that exists                                          *)
(***************************************************************************)
\* C35: an init whose name, trimmed, is a key of the store exits with status
\* 1 and "already exists" in its first step: no provisioning step is
\* started, no provider is constructed, no credentials are read, no provider
\* call and no creation request is made, and the store and the servers are
\* as they were.
C35_ExistingNameRefused ==
    [][args'.cmd = "init" =>
         /\ (pc = "idle" /\ get_project(fs, args'.name).status = "found") =>
              /\ pc' = "exited"
              /\ exit_code' = 1
              /\ message' = "Project already exists"
              /\ fs' = fs
              /\ servers' = servers
         /\ message' = "Project already exists" =>
              /\ pc' = "exited"
              /\ steps' = <<>>
              /\ succeeded' = {}
              /\ cloud_provider' = ""
              /\ credentials_json' = "" /\ session_json' = ""
              /\ apiCalls' = 0 /\ createCalls' = 0
              /\ instance' = NoInstance
              /\ fs' = EarlierFs]_vars

\* init " demo " on a store that holds demo
C35_Witness ==
    /\ args.cmd = "init"
    /\ args.name = " demo "
    /\ pc = "exited"
    /\ exit_code = 1
    /\ message = "Project already exists"
    /\ InStore("demo")

(***************************************************************************)
(* Store operations on a store file that cannot be read                    *)
(***************************************************************************)
StoreOps == {"load", "get", "add", "update", "remove", "list"}

\* a store operation has just returned from a store file that does not load
OnUnreadable ==
    /\ call'.n # call.n
    /\ call'.op \in StoreOps
    /\ ~LoadJsonFile(fs, PROJECTS).ok

\* C36 (as claimed): on a store file that cannot be read or parsed, each of
\* load, get, add, update, remove and list fails with ConfigError and leaves
\* the files as they are.
C36_Original ==
    [][OnUnreadable => (call'.status = "ConfigError" /\ fs' = fs)]_vars

\* what the operations do on such a file: nothing is written and the backup
\* is not read; the result is that of the argument check where one precedes
\* the load (None for get of an empty name, ValueError for add of a blank
\* name and for update and remove of an empty name), otherwise ConfigError
\* for a file json.loads rejects and UnicodeDecodeError for one that is not
\* valid UTF-8
C36_Observed ==
    [][OnUnreadable =>
         /\ fs' = fs
         /\ call'.status =
              IF call'.op = "get" /\ call'.name = "" THEN "absent"
              ELSE IF call'.op = "add" /\ Strip(call'.name) = ""
              THEN "ValueError"
              ELSE IF call'.op \in {"update", "remove"} /\ call'.name = ""
              THEN "ValueError"
              ELSE LoadJsonFile(fs, PROJECTS).error]_vars

\* load_projects has raised UnicodeDecodeError
C36_Undecodable ==
    /\ call.op = "load"
    /\ call.status = "UnicodeDecodeError"
    /\ FsContent(fs, PROJECTS) = <<InvalidUtf8>>
    /\ LoadJsonFile(fs, BACKUP).ok

\* add_project has raised ConfigError on a truncated store file
C36_Truncated ==
    /\ call.op = "add"
    /\ call.name = "demo"
    /\ call.status = "ConfigError"
    /\ ~LoadJsonFile(fs, PROJECTS).ok

(***************************************************************************)
(* Credential preparation and transfer with and without skip_auth          *)
(***************************************************************************)
Started(step) == \E i \in 1..Len(steps) : steps[i] = step

TransferStates ==
    {"credential_transfer", "transfer_settle", "transfer_connect",
     "transfer_mkdir"} \cup CopyStates

\* C37: in a provisioning with skip_auth the credential preparation is never
\* started and no credential or session content is read, and the credential
\* transfer is never started: the session cache is not cleared, no session
\* for claude-user is created and no file is copied.
C37_SkipAuthSkipsPreparationAndTransfer ==
    (args.cmd = "init" /\ args.skip_auth) =>
      /\ ~Started("prepare_auth")
      /\ pc # "prepare_auth"
      /\ credentials_json = "" /\ session_json = ""
      /\ ~Started("credential_transfer")
      /\ pc \notin TransferStates
      /\ \A q \in DOMAIN handed : q[2] = "root" /\ ~handed[q].evicted
      /\ \A k \in DOMAIN sessions : sessions[k].user = "root"
      /\ attempted = {}
      /\ remote = {}

\* a provisioning with skip_auth that succeeded: the root session of the
\* setup polling is still cached
C37_Witness ==
    /\ args.cmd = "init"
    /\ args.skip_auth
    /\ pc = "exited"
    /\ exit_code = 0
    /\ "wait_for_setup_complete" \in succeeded
    /\ DOMAIN sessions # {}

\* C38: in a provisioning without skip_auth the instance creation is started
\* only with both the credential and the session content returned by the
\* credential preparation; a preparation that returned without one of them
\* is the failed step of the run, which has exited with status 1 with no
\* creation request made, no server created and the store as it was found;
\* and the credential transfer is started only with both.
C38_BothBlobsBeforeCreation ==
    (args.cmd = "init" /\ ~args.skip_auth) =>
      /\ (pc = "create_instance" \/ Started("create_instance")
             \/ createCalls > 0 \/ instance # NoInstance) =>
           /\ "prepare_auth" \in succeeded
           /\ credentials_json # "" /\ session_json # ""
      /\ ("prepare_auth" \in succeeded \/ pc \in TransferStates
             \/ Started("credential_transfer")) =>
           (credentials_json # "" /\ session_json # "")
      /\ (Started("prepare_auth")
             /\ (credentials_json = "" \/ session_json = "")) =>
           /\ failed = "prepare_auth"
           /\ pc = "exited" /\ exit_code = 1
           /\ ~Started("create_instance")
           /\ createCalls = 0
           /\ instance = NoInstance
           /\ servers \subseteq {1} /\ nextId <= 2
           /\ fs \in {EmptyFs, EarlierFs}

\* the credentials are there but the session file is not
C38_Witness ==
    /\ args.cmd = "init"
    /\ ~args.skip_auth
    /\ credentials_json # ""
    /\ session_json = ""
    /\ failed = "prepare_auth"
    /\ message = "No Claude Code session file found"

\* the transfer runs with both
C38_WitnessTransfer ==
    /\ args.cmd = "init"
    /\ pc = "transfer_session"
    /\ credentials_json = "CREDENTIALS"
    /\ session_json = "SESSION"

(***************************************************************************)
(* The bookkeeping fields of the stored records                            *)
(***************************************************************************)
Bookkeeping == {"project_name", "added_at", "last_accessed"}

\* C39: after any calls of add_project, update_project (update_project_status
\* among them) and remove_project, on a store that was empty or built by
\* add_project, every record of the store
\* has the fields project_name, added_at and last_accessed, and its
\* project_name is the key it is stored under.
C39_RecordsCarryBookkeeping ==
    /\ LoadJsonFile(fs, PROJECTS).ok
    /\ \A k \in DOMAIN StoreDoc :
         /\ Bookkeeping \subseteq DOMAIN StoreDoc[k]
         /\ StoreDoc[k].project_name = k

\* a record added under a padded name, then given a new status, beside the
\* record of an earlier add
C39_Witness ==
    /\ call.op = "update"
    /\ call.status = "ok"
    /\ call.name = " other "
    /\ call.out = [status |-> "off"]
    /\ DOMAIN StoreDoc = {"demo", "other"}
    /\ StoreDoc["other"].status = "off"
    /\ StoreDoc["other"].project_name = "other"

====
